---- MODULE Spec2Model ----
(***************************************************************************)
(* A model of the compilation pipeline of numba:                           *)
(*   - the control-flow graph analyser  (numba/controlflow.py, CFGraph)    *)
(* Each section gives the state of one component, its operations as        *)
(* actions, and the properties checked of it.                              *)
(***************************************************************************)
EXTENDS FiniteSets, Integers, Sequences, TLC

\* ------------------------------------------------------------------ bounds
\* Largest number of nodes add_node may register.
MaxNodes == 3
\* Largest number of distinct edges add_edge may register.
MaxEdges == 5
\* Largest per-edge data value add_edge is given (besides None).
MaxData == 1

\* Largest number of formal types the candidate signatures are written with.
MaxTypes == 3
\* Largest number of arguments of a candidate signature; the call has as many.
MaxArgs == 2
\* Largest number of candidate signatures (cases) of one template.
MaxCases == 3

\* Largest number of dimensions of an array type.
MaxNdim == 2

\* Largest number of statements the type inferer visits.
MaxStmts == 3

\* Largest number of IR blocks the translator builds.
MaxIrBlocks == 2
\* Largest number of bytecode instructions in one block.
MaxInsts == 2
\* Largest number of outgoing phis of one block.
MaxPhis == 1
\* Largest number of arguments stored by init_first_block.
MaxArgCount == 1
\* Largest length of a block body handed directly to Block.verify.
MaxBody == 2

\* Largest number of top-level loops of the function being lifted.
MaxLoops == 2
\* Largest number of instructions of one loop.
MaxLoopInsts == 2
\* Largest number of loop-less instructions of the function.
MaxOuterInsts == 1

\* Width in bits of the native signed integers.
IntBits == 4

\* Largest number of Assigner.assign calls made inside one block.
MaxAssigns == 3

\* Largest number of blocks of the translated function.
MaxBlocks == 3
\* Largest number of SETUP_LOOP instructions of the translated function.
MaxSetupLoops == 1
\* Largest version number a renamed variable may reach.
MaxVersions == 2

\* Largest number of statements of the lowered function.
MaxVisits == 3
\* Largest number of objects a run of the lowered function creates.
MaxObjs == 3
\* Largest number of loop iterations a run of the lowered function makes.
MaxIter == 2

\* ------------------------------------------------------------- vocabulary
\* The hashable objects used as graph nodes, numbered by insertion.
Nodes == 0 .. (MaxNodes - 1)
\* Python's None (CFGraph._entry_point before set_entry_point).
None == -1
\* The synthetic exit object of _find_post_dominators.
dummy_exit == -2
\* Every key the predecessor / successor tables may hold.
NodeU == Nodes \cup {dummy_exit}
\* The value of an attribute that process() has not assigned yet.
Unset == << >>
\* The same for the attributes that hold a set once assigned.
UnsetSet == {}

VARIABLES
    \* CFGraph fields
    _nodes, _preds, _succs, _edge_data, _entry_point,
    _dead_nodes, _exit_points, _doms, _post_doms, _back_edges, _loops,
    _in_loops,
    \* the list sorted() returns in _find_loops, line 353
    sorted_loops,
    \* position of process(), the exception it raised, and the locals of
    \* _find_dominators_internal
    pc, raised, doms, todo

cfgVars == << _nodes, _preds, _succs, _edge_data, _entry_point, _dead_nodes,
              _exit_points, _doms, _post_doms, _back_edges, _loops,
              _in_loops, sorted_loops, pc, raised, doms, todo >>

VARIABLES
    \* Assigner fields
    dest_to_src, src_invalidate, unused_dests,
    \* the value the last Assigner call returned, the name it was called for,
    \* the exception it raised, and the number of assign calls made
    asg_ret, asg_arg, asg_raised, asg_calls,
    \* history: for each temporary with a recorded substitution, the names
    \* assigned to since that substitution was recorded; and whether the last
    \* call returned, for a temporary, a name assigned to since then
    rewritten_since, stale_returned

asgVars == << dest_to_src, src_invalidate, unused_dests, asg_ret, asg_arg,
              asg_raised, asg_calls, rewritten_since, stale_returned >>

VARIABLES
    \* ControlFlowAnalysis fields: _loops (the SETUP_LOOP ranges) and backbone
    cfa_loops, cfa_backbone,
    \* Interpreter fields: current_block_offset, code_cellvars, and the
    \* current scope (the latest version of each name, -1 when undefined)
    current_block_offset, code_cellvars, scope_version,
    \* position of the translation, and the facts of the last store() call
    interp_pc, last_store

storeVars == << cfa_loops, cfa_backbone, current_block_offset, code_cellvars,
                scope_version, interp_pc, last_store >>

\* --------------------------------------------------------------------
\* LLVMCodeGenerator (codegen/translate.py): the function being emitted and
\* one run of the emitted function.
VARIABLES
    lfunc,                \* self.lfunc: basic block label -> instructions
    builder_block,        \* self.builder.basic_block
    object_local_temps,   \* names of the object locals that own a stack slot
    in_loop,              \* self.in_loop
    loop_beginnings,      \* self.loop_beginnings (the open while loops)
    n_temps,              \* ObjectTempNodes visited so far
    n_whiles,             \* While nodes visited so far
    n_visits,             \* statements visited so far
    cg_pc,                \* "translate" while visiting, then "done"
    x_pc,                 \* << block label, index >> of the next instruction
    regs,                 \* SSA value of each call result
    slots,                \* contents of the stack slots
    refs,                 \* per object: references acquired minus released
    n_objs,               \* objects created by the run
    n_iters,              \* loop bodies entered by the run
    over_released,        \* a decrement hit an object with no reference left
    faulted,              \* a call of the run returned NULL
    passed_error,         \* the run went through error_label
    ret_block             \* block whose return instruction ended the run

lowerVars == << lfunc, builder_block, object_local_temps, in_loop,
                loop_beginnings, n_temps, n_whiles, n_visits, cg_pc, x_pc,
                regs, slots, refs, n_objs, n_iters, over_released, faulted,
                passed_error, ret_block >>

VARIABLES
    \* one call of CFGraph.successors or CFGraph.predecessors, consumed to
    \* its end
    acc_call,             \* << method name, argument >>, << >> before it
    acc_yielded,          \* the pairs the generator yielded, in order
    acc_raised            \* the exception that ended the generator

accVars == << acc_call, acc_yielded, acc_raised >>

VARIABLES
    \* one call resolve_overload(context, key, cases, args, {})
    type_compatibility,   \* context.type_compatibility(actual, formal), for
                          \* the type every argument of the call has
    cases,                \* the candidate signatures, each its tuple of
                          \* formal argument types
    ovl_status,           \* "pending", then "returned" or "TypeError"
    ovl_value             \* the value returned

ovlVars == << type_compatibility, cases, ovl_status, ovl_value >>

VARIABLES
    \* one call DefaultPromoter(universe, table).promote(type1, type2)
    c_string_type,        \* universe.c_string_type
    type1, type2,         \* the arguments
    prom_status,          \* "pending", then "returned" or the exception
    prom_value            \* the type returned

promVars == << c_string_type, type1, type2, prom_status, prom_value >>

VARIABLES
    \* one TypeInferer, visiting the statements of a function in order
    none_promotes,        \* whether context.promote_types(None, t) returns t
                          \* (TRUE) or raises (FALSE)
    symtab,               \* type of each local variable, NoType for None
    return_variable,      \* self.return_variable.type
    inf_return_type,      \* self.return_type
    visited,              \* the statements visited, each with the node that
                          \* replaced its value
    inf_status            \* "visiting", "done", or the exception raised

infVars == << none_promotes, symtab, return_variable, inf_return_type,
              visited, inf_status >>


\* Bytecode translator (interpreter.py): the IR blocks built so far, the
\* block being filled, the translator's position, the control-flow
\* analysis' flag that the next instruction opens a new block, the number
\* of instructions of the current block already dispatched, and the last
\* Block.verify() call with its outcome.
VARIABLES
    ir_blocks,
    current_block,
    interp_stage,
    _force_new_block,
    inst_count,
    verified

irVars == << ir_blocks, current_block, interp_stage, _force_new_block,
             inst_count, verified >>


\* lift_loop (looplifting.py): the instructions of the outer function, the
\* names its code is taken to read and to write, the loops lifted so far
\* (their argument names), the number of loops handled, and the loop handled
\* last with the arguments and returns computed for it.
VARIABLES
    outer,
    outer_rds,
    outer_wrs,
    lbclist,
    loops_handled,
    last_loop

liftVars == << outer, outer_rds, outer_wrs, lbclist, loops_handled, last_loop >>


\* divmod_by_constant (cgutils.py): the value, the constant divisor, the
\* position of the generated code, and the pair it returns.
VARIABLES
    dm_val,
    dm_divisor,
    dm_pc,
    dm_result

dmVars == << dm_val, dm_divisor, dm_pc, dm_result >>


\* get_slice_length (targets/slicing.py): the fields of the slice, the
\* position of the generated code, and the length it returns.
VARIABLES
    sl_start,
    sl_stop,
    sl_step,
    sl_pc,
    sl_length

slVars == << sl_start, sl_stop, sl_step, sl_pc, sl_length >>

vars == << cfgVars, asgVars, storeVars, lowerVars, accVars, ovlVars,
           promVars,
           infVars,
           irVars,
           liftVars,
           dmVars,
           slVars >>

\* ---------------------------------------------------------------- helpers
\* Every order in which Python may iterate over the set S.
IterationOrders(S) ==
    {s \in [1 .. Cardinality(S) -> S] : \A x \in S : \E i \in DOMAIN s : s[i] = x}

\* The empty defaultdict(set): every key reads as the empty set.
EmptyTable == [n \in NodeU |-> {}]

\* The number of edges held in a successor table.
EdgeCount(succs) == Cardinality({e \in NodeU \X NodeU : e[2] \in succs[e[1]]})

\* CFGraph._add_edge on the pair of tables.
_add_edge(preds, succs, from_, to) ==
    [preds |-> [preds EXCEPT ![to] = @ \cup {from_}],
     succs |-> [succs EXCEPT ![from_] = @ \cup {to}]]

\* CFGraph._remove_node_edges on the pair of tables.
_remove_node_edges(preds, succs, node) ==
    LET popped_succs == succs[node]
        s1 == [succs EXCEPT ![node] = {}]
        p1 == [n \in NodeU |-> IF n \in popped_succs THEN preds[n] \ {node}
                                                    ELSE preds[n]]
        popped_preds == p1[node]
        p2 == [p1 EXCEPT ![node] = {}]
        s2 == [n \in NodeU |-> IF n \in popped_preds THEN s1[n] \ {node}
                                                    ELSE s1[n]]
    IN  [preds |-> p2, succs |-> s2]

\* The dictionary _edge_data is the set of its items (from_, to, data), one
\* item per key (from_, to).
EdgeKeys(edge_data) == {<< t[1], t[2] >> : t \in edge_data}

\* CFGraph._add_edge, line 189: self._edge_data[from_, to] = data.
SetEdgeData(edge_data, from_, to, data) ==
    {t \in edge_data : << t[1], t[2] >> # << from_, to >>}
        \cup {<< from_, to, data >>}

\* Mutant of DelNodeEdgeData: the items of the node's edges are kept.
DelNodeEdgeData_kept(edge_data, preds, succs, node) == edge_data

\* CFGraph._remove_node_edges, lines 194 and 197: the dictionary once the
\* items of the edges leaving and entering node are deleted.
DelNodeEdgeData(edge_data, preds, succs, node) ==
    {t \in edge_data : /\ ~ (t[1] = node /\ t[2] \in succs[node])
                       /\ ~ (t[2] = node /\ t[1] \in preds[node])}

\* _remove_node_edges applied to every node of a set, one after the other:
\* what is left of the dictionary.
RECURSIVE RemoveAllEdgeData(_, _, _, _)
RemoveAllEdgeData(edge_data, preds, succs, dead) ==
    IF dead = {} THEN edge_data
    ELSE LET d == CHOOSE x \in dead : TRUE
             t == _remove_node_edges(preds, succs, d)
         IN  RemoveAllEdgeData(DelNodeEdgeData(edge_data, preds, succs, d),
                               t.preds, t.succs, dead \ {d})

\* _remove_node_edges applied to every node of a set, one after the other.
RECURSIVE RemoveAll(_, _, _)
RemoveAll(preds, succs, dead) ==
    IF dead = {} THEN [preds |-> preds, succs |-> succs]
    ELSE LET d == CHOOSE x \in dead : TRUE
             t == _remove_node_edges(preds, succs, d)
         IN  RemoveAll(t.preds, t.succs, dead \ {d})

\* CFGraph._dfs: the nodes the traversal yields (stack of pending nodes,
\* set of nodes already seen).
RECURSIVE _dfs(_, _, _)
_dfs(succs, stack, seen) ==
    IF stack = {} THEN seen
    ELSE LET node == CHOOSE x \in stack : TRUE
         IN  IF node \in seen
             THEN _dfs(succs, stack \ {node}, seen)
             ELSE _dfs(succs, (stack \ {node}) \cup succs[node], seen \cup {node})

\* functools.reduce(set.intersection, [table[p] for p in ps]), ps non-empty.
RECURSIVE IntersectAll(_, _)
IntersectAll(table, ps) ==
    LET p == CHOOSE x \in ps : TRUE
    IN  IF ps = {p} THEN table[p]
        ELSE table[p] \cap IntersectAll(table, ps \ {p})

\* ============================================================ CFGraph
\* CFGraph.__init__
CFGInit ==
    /\ _nodes = {}
    /\ _preds = EmptyTable
    /\ _succs = EmptyTable
    /\ _edge_data = {}
    /\ _entry_point = None
    /\ _dead_nodes = UnsetSet
    /\ _exit_points = UnsetSet
    /\ _doms = Unset
    /\ _post_doms = Unset
    /\ _back_edges = UnsetSet
    /\ _loops = Unset
    /\ _in_loops = Unset
    /\ sorted_loops = Unset
    /\ pc = "build"
    /\ raised = "none"
    /\ doms = Unset
    /\ todo = << >>

\* The component is left as constructed (used by the other components).
CFGIdle == UNCHANGED cfgVars

\* CFGraph.add_node(node)
add_node(node) ==
    /\ pc = "build"
    /\ node = Cardinality(_nodes)
    /\ _nodes' = _nodes \cup {node}
    /\ UNCHANGED << _preds, _succs, _edge_data, _entry_point, _dead_nodes, _exit_points,
                    _doms, _post_doms, _back_edges, _loops, _in_loops,
                    sorted_loops, pc, raised, doms, todo >>

\* CFGraph.add_edge(src, dest, data): both asserts pass, then _add_edge.
add_edge(src, dest, data) ==
    /\ pc = "build"
    /\ src \in _nodes
    /\ dest \in _nodes
    /\ dest \in _succs[src] \/ EdgeCount(_succs) < MaxEdges
    /\ LET t == _add_edge(_preds, _succs, src, dest)
       IN  /\ _preds' = t.preds
           /\ _succs' = t.succs
    /\ _edge_data' = SetEdgeData(_edge_data, src, dest, data)
    /\ UNCHANGED << _nodes, _entry_point, _dead_nodes, _exit_points, _doms,
                    _post_doms, _back_edges, _loops, _in_loops, sorted_loops, pc,
                    raised, doms, todo >>

\* CFGraph.set_entry_point(node)
set_entry_point(node) ==
    /\ pc = "build"
    /\ node \in _nodes
    /\ _entry_point' = node
    /\ UNCHANGED << _nodes, _preds, _succs, _edge_data, _dead_nodes, _exit_points, _doms,
                    _post_doms, _back_edges, _loops, _in_loops, sorted_loops, pc,
                    raised, doms, todo >>

\* CFGraph._eliminate_dead_blocks: the live set, the dead set and the tables
\* once the edges of every dead node are removed.
_eliminate_dead_blocks(nodes, preds, succs, edge_data, entry) ==
    LET live == _dfs(succs, {entry}, {})
        dead == nodes \ live
        t    == RemoveAll(preds, succs, dead)
    IN  [nodes |-> live, dead_nodes |-> dead, preds |-> t.preds,
         succs |-> t.succs,
         edge_data |-> RemoveAllEdgeData(edge_data, preds, succs, dead)]

\* Mutant of _find_exit_points: the test on the successors is inverted.
_find_exit_points_inverted(nodes, succs) == {n \in nodes : succs[n] # {}}

\* CFGraph._find_exit_points
_find_exit_points(nodes, succs) == {n \in nodes : succs[n] = {}}

\* _find_dominators_internal, lines 241-248: the seeds of the fixed point.
DomEntries(post, entry, exit_points) ==
    IF post THEN exit_points ELSE {entry}

\* Mutant of InitialDoms: every node starts with itself alone.
InitialDoms_self(nodes, entries) == [n \in nodes \cup entries |-> {n}]

\* _find_dominators_internal, lines 254-262: the initial table.
InitialDoms(nodes, entries) ==
    [n \in nodes \cup entries |-> IF n \in entries THEN {n} ELSE nodes]

\* Mutant of PopLast: the last element is read but left on the list.
PopLast_peek(list) == list

\* _find_dominators_internal, line 265: what todo.pop() leaves on the list.
PopLast(list) == SubSeq(list, 1, Len(list) - 1)

\* Mutant of new_doms: the predecessors' sets are united, not intersected.
new_doms_union(n, table, preds) ==
    {n} \cup UNION {table[p] : p \in preds}

\* _find_dominators_internal, lines 268-272: the candidate set of node n.
new_doms(n, table, preds) ==
    IF preds = {} THEN {n} ELSE {n} \cup IntersectAll(table, preds)

\* CFGraph._find_back_edges, line 311: the back edges leaving src.
BackOf(src, succs, domtable) == domtable[src] \cap succs[src]

\* CFGraph._find_back_edges: the set of back edges.
_find_back_edges(nodes, succs, domtable) ==
    {e \in nodes \X nodes : e[2] \in BackOf(e[1], succs, domtable)}

\* CFGraph._find_back_edges, line 314: the assertion.
BackEdgeAssertion(nodes, succs, domtable) ==
    \A src \in nodes : Cardinality(BackOf(src, succs, domtable)) <= 1

\* CFGraph._find_loops, lines 327-333: the body grown from the source of a
\* back edge (queue of pending nodes, body so far, seeded with the header).
RECURSIVE GrowBody(_, _, _)
GrowBody(preds, queue, body) ==
    IF queue = {} THEN body
    ELSE LET n == CHOOSE x \in queue : TRUE
         IN  IF n \in body
             THEN GrowBody(preds, queue \ {n}, body)
             ELSE GrowBody(preds, (queue \ {n}) \cup preds[n], body \cup {n})

\* Mutant of LoopBodies: the body of a later back edge replaces the body
\* recorded for its header instead of being merged into it.
LoopBodies_overwrite(preds, back_edges) ==
    [header \in {e[2] : e \in back_edges} |->
        LET e == CHOOSE b \in back_edges : b[2] = header
        IN  GrowBody(preds, {e[1]}, {header})]

\* CFGraph._find_loops, lines 322-337: header -> body, the bodies of the back
\* edges that share a header merged by update().
LoopBodies(preds, back_edges) ==
    [header \in {e[2] : e \in back_edges} |->
        UNION {GrowBody(preds, {e[1]}, {header}) :
                   e \in {b \in back_edges : b[2] = header}}]

\* Mutant of MakeLoops: the body is not subtracted from the predecessors and
\* successors collected.
MakeLoops_internal(preds, succs, bodies) ==
    [header \in DOMAIN bodies |->
        LET body == bodies[header]
        IN  [entries |-> UNION {preds[n] : n \in body},
             exits   |-> UNION {succs[n] : n \in body},
             header  |-> header,
             body    |-> body]]

\* CFGraph._find_loops, lines 339-348: header -> Loop.
MakeLoops(preds, succs, bodies) ==
    [header \in DOMAIN bodies |->
        LET body == bodies[header]
        IN  [entries |-> UNION {preds[n] \ body : n \in body},
             exits   |-> UNION {succs[n] \ body : n \in body},
             header  |-> header,
             body    |-> body]]

\* Mutant of SortedByBodyLen: the loops are sorted from longest to shortest.
SortedByBodyLen_reversed(order, loops) ==
    \A i, j \in DOMAIN order :
        i < j => Cardinality(loops[order[i]].body)
                     >= Cardinality(loops[order[j]].body)

\* Mutant of SortedByBodyLen: the loops are visited unsorted.
SortedByBodyLen_unsorted(order, loops) == TRUE

\* CFGraph._find_loops, line 353: order is a result sorted() may return for
\* the key len(loop.body).
SortedByBodyLen(order, loops) ==
    \A i, j \in DOMAIN order :
        i < j => Cardinality(loops[order[i]].body)
                     <= Cardinality(loops[order[j]].body)

\* CFGraph._find_loops, lines 350-356: node -> list of headers, appended in
\* the order the loops are visited.
MakeInLoops(nodes, loops, order) ==
    [n \in nodes |-> SelectSeq(order, LAMBDA h : n \in loops[h].body)]

\* Mutant of LinkToDummy: the members of exit-less loops are not linked.
LinkToDummy_skipped(preds, succs, members) ==
    [preds |-> preds, succs |-> succs]

\* CFGraph._find_post_dominators, lines 287-290: the tables with every member
\* of an exit-less loop linked to the dummy exit.
RECURSIVE LinkToDummy(_, _, _)
LinkToDummy(preds, succs, members) ==
    IF members = {} THEN [preds |-> preds, succs |-> succs]
    ELSE LET b == CHOOSE x \in members : TRUE
             t == _add_edge(preds, succs, b, dummy_exit)
         IN  LinkToDummy(t.preds, t.succs, members \ {b})

\* CFGraph._find_post_dominators, lines 287-290, on the dictionary: _add_edge
\* stores the default data None for every new edge to the dummy exit.
LinkEdgeData(edge_data, members) ==
    {t \in edge_data : ~ (t[1] \in members /\ t[2] = dummy_exit)}
        \cup {<< b, dummy_exit, None >> : b \in members}

\* Mutant of WithDummyExit: the dummy exit is not added to the exit points.
WithDummyExit_omitted(exit_points) == exit_points

\* CFGraph._find_post_dominators, lines 285-286: the exit points with the
\* dummy exit added.
WithDummyExit(exit_points) == exit_points \cup {dummy_exit}

\* The members of the loops without exits.
InfiniteLoopMembers(loops) ==
    UNION {loops[h].body : h \in {x \in DOMAIN loops : loops[x].exits = {}}}

\* CFGraph._find_post_dominators, lines 292-295: the table without the dummy.
StripDummy(table) ==
    [n \in (DOMAIN table) \ {dummy_exit} |-> table[n] \ {dummy_exit}]

\* CFGraph.process, lines 94-98: the entry-point check, dead-block
\* elimination, exit points, and the set-up of the dominator fixed point.
process ==
    /\ pc = "build"
    /\ IF _entry_point = None
       THEN /\ pc' = "failed"
            /\ raised' = "RuntimeError"
            /\ UNCHANGED << _nodes, _preds, _succs, _edge_data, _entry_point,
                            _dead_nodes, _exit_points, _doms, _post_doms,
                            _back_edges, _loops, _in_loops, sorted_loops,
                            doms, todo >>
       ELSE LET e       == _eliminate_dead_blocks(_nodes, _preds, _succs,
                                                  _edge_data, _entry_point)
                exits   == _find_exit_points(e.nodes, e.succs)
                entries == DomEntries(FALSE, _entry_point, exits)
            IN  /\ _nodes' = e.nodes
                /\ _dead_nodes' = e.dead_nodes
                /\ _preds' = e.preds
                /\ _succs' = e.succs
                /\ _edge_data' = e.edge_data
                /\ _exit_points' = exits
                /\ doms' = InitialDoms(e.nodes, entries)
                /\ todo' \in IterationOrders(e.nodes \ entries)
                /\ pc' = "doms"
                /\ UNCHANGED << _entry_point, _doms, _post_doms, _back_edges,
                                _loops, _in_loops, sorted_loops, raised >>

\* _find_dominators_internal, lines 264-276: one iteration of the worklist
\* loop, for the dominators (pc = "doms") or the post-dominators.
find_dominators_step ==
    /\ pc \in {"doms", "post_doms"}
    /\ todo # << >>
    /\ LET post        == (pc = "post_doms")
           entries     == DomEntries(post, _entry_point, _exit_points)
           preds_table == IF post THEN _succs ELSE _preds
           succs_table == IF post THEN _preds ELSE _succs
           n           == todo[Len(todo)]
           rest        == PopLast(todo)
           nd          == new_doms(n, doms, preds_table[n])
       IN  IF n \in entries \/ nd = doms[n]
           THEN /\ todo' = rest
                /\ UNCHANGED << doms, pc, raised >>
           ELSE IF ~ (Cardinality(nd) < Cardinality(doms[n]))
           THEN /\ pc' = "failed"
                /\ raised' = "AssertionError"
                /\ UNCHANGED << doms, todo >>
           ELSE /\ doms' = [doms EXCEPT ![n] = nd]
                /\ \E ext \in IterationOrders(succs_table[n]) :
                       todo' = rest \o ext
                /\ UNCHANGED << pc, raised >>
    /\ UNCHANGED << _nodes, _preds, _succs, _edge_data, _entry_point, _dead_nodes,
                    _exit_points, _doms, _post_doms, _back_edges, _loops,
                    _in_loops, sorted_loops >>

\* CFGraph.process, lines 98-101: _find_dominators returns, then
\* _find_back_edges, _find_loops, and the set-up of _find_post_dominators,
\* which raises when the fixed point has no seed (lines 250-252).
find_loops ==
    /\ pc = "doms"
    /\ todo = << >>
    /\ _doms' = doms
    /\ IF ~ BackEdgeAssertion(_nodes, _succs, doms)
       THEN /\ pc' = "failed"
            /\ raised' = "AssertionError"
            /\ UNCHANGED << _nodes, _preds, _succs, _edge_data, _entry_point, _dead_nodes,
                            _exit_points, _post_doms, _back_edges, _loops,
                            _in_loops, sorted_loops, doms, todo >>
       ELSE LET back   == _find_back_edges(_nodes, _succs, doms)
                loops  == MakeLoops(_preds, _succs, LoopBodies(_preds, back))
                t      == LinkToDummy(_preds, _succs,
                                      InfiniteLoopMembers(loops))
                exits  == WithDummyExit(_exit_points)
                entries == DomEntries(TRUE, _entry_point, exits)
            IN  /\ _back_edges' = back
                /\ _loops' = loops
                /\ \E order \in IterationOrders(DOMAIN loops) :
                       /\ SortedByBodyLen(order, loops)
                       /\ sorted_loops' = order
                       /\ _in_loops' = MakeInLoops(_nodes, loops, order)
                /\ _exit_points' = exits
                /\ _preds' = t.preds
                /\ _succs' = t.succs
                /\ _edge_data' = LinkEdgeData(_edge_data,
                                              InfiniteLoopMembers(loops))
                /\ IF entries = {}
                   THEN /\ pc' = "failed"
                        /\ raised' = "RuntimeError"
                        /\ UNCHANGED << doms, todo >>
                   ELSE /\ doms' = InitialDoms(_nodes, entries)
                        /\ todo' \in IterationOrders(_nodes \ entries)
                        /\ pc' = "post_doms"
                        /\ UNCHANGED raised
                /\ UNCHANGED << _nodes, _entry_point, _dead_nodes, _post_doms >>

\* CFGraph.dominators()
dominators == _doms

\* CFGraph.post_dominators()
post_dominators == _post_doms

\* CFGraph.backbone()
backbone == _post_doms[_entry_point]

\* CFGraph.loops()
loops_ == _loops

\* CFGraph.in_loops(node)
in_loops(node) == [i \in DOMAIN _in_loops[node] |-> _loops[_in_loops[node][i]]]

\* CFGraph._find_post_dominators, lines 291-297: the fixed point returns and
\* every reference to the dummy exit is removed; process() returns.
find_post_dominators ==
    /\ pc = "post_doms"
    /\ todo = << >>
    /\ _post_doms' = StripDummy(doms)
    /\ LET t == _remove_node_edges(_preds, _succs, dummy_exit)
       IN  /\ _preds' = t.preds
           /\ _succs' = t.succs
    /\ _edge_data' = DelNodeEdgeData(_edge_data, _preds, _succs, dummy_exit)
    /\ _exit_points' = _exit_points \ {dummy_exit}
    /\ pc' = "done"
    /\ UNCHANGED << _nodes, _entry_point, _dead_nodes, _doms, _back_edges,
                    _loops, _in_loops, sorted_loops, raised, doms, todo >>

CFGSteps ==
    \/ \E node \in Nodes : add_node(node)
    \/ \E src, dest \in Nodes : add_edge(src, dest, None)
    \/ \E node \in Nodes : set_entry_point(node)
    \/ process
    \/ find_dominators_step
    \/ find_loops
    \/ find_post_dominators


\* ------------------------------------------------- CFGraph: properties
\* The nodes reached from start along edges of succs by paths that never
\* visit avoid (start included, unless it is avoid).
RECURSIVE Closure(_, _, _)
Closure(succs, avoid, reached) ==
    LET more == (UNION {succs[n] : n \in reached}) \ ({avoid} \cup reached)
    IN  IF more = {} THEN reached ELSE Closure(succs, avoid, reached \cup more)

ReachAvoiding(succs, start, avoid) ==
    IF start = avoid THEN {} ELSE Closure(succs, avoid, {start})

\* Every path from the entry point to N passes through D.
EveryPathFromEntryPasses(D, N) ==
    N \notin ReachAvoiding(_succs, _entry_point, D)

\* C1: once process() has computed the dominators, for every live node N and
\* every node D, D is in dominators()[N] exactly when every path from the
\* entry point to N passes through D.
C1_DominatorsArePathDominators ==
    pc = "done" =>
        \A N \in _nodes : \A D \in Nodes :
            (D \in dominators[N]) <=> EveryPathFromEntryPasses(D, N)

\* C1 witness: process() returned for a graph in which some node has a
\* dominator other than itself and the entry point, and some live node does
\* not dominate another.
C1_Witness ==
    /\ pc = "done"
    /\ \E N, D \in _nodes :
           D \in dominators[N] /\ D # N /\ D # _entry_point
    /\ \E N, M \in _nodes : M \notin dominators[N]

\* The nodes from which an exit can be reached without passing through D;
\* a member of an exit-less loop counts as linked to an exit.
CanExitAvoiding(N, D) ==
    \E x \in ReachAvoiding(_succs, N, D) :
        \/ x \in _exit_points
        \/ \E h \in DOMAIN _loops :
               x \in _loops[h].body /\ _loops[h].exits = {}

\* The live nodes every path from the entry point to an exit passes through.
PostDominatorsOfEntry == {D \in _nodes : ~ CanExitAvoiding(_entry_point, D)}

\* The nodes lying in the body of some detected loop.
InSomeLoop == UNION {_loops[h].body : h \in DOMAIN _loops}

\* C5 (as stated): after process(), backbone() is exactly the set of nodes
\* that post-dominate the entry point and lie outside every loop body.
C5_BackboneExcludesLoops ==
    pc = "done" => backbone = PostDominatorsOfEntry \ InSomeLoop

\* C5 (amended): after process(), backbone() is exactly the set of nodes
\* that post-dominate the entry point, loop-body nodes included.
C5_BackboneIsPostDominatorsOfEntry ==
    pc = "done" => backbone = PostDominatorsOfEntry

\* C5 witness: process() returned, the backbone holds a node other than the
\* entry point, a node of a loop body, and misses some live node.
C5_Witness ==
    /\ pc = "done"
    /\ backbone \cap InSomeLoop # {}
    /\ backbone \ {_entry_point} # {}
    /\ _nodes \ backbone # {}

\* A is registered before B in the list l of headers.
Before(l, A, B) ==
    \E i, j \in DOMAIN l : i < j /\ l[i] = A /\ l[j] = B

\* The body of loop A is a strict subset of the body of loop B.
StrictlyInside(A, B) == A.body \subseteq B.body /\ A.body # B.body

NaturalLoop(src, dst) ==
    {dst} \cup {n \in _nodes : src \in ReachAvoiding(_succs, n, dst)}

\* The back edges found that target header.
BackEdgesTo(header) == {e \in _back_edges : e[2] = header}

\* C9: loops() has exactly one entry per distinct back-edge target, and the
\* body of that entry is the union of the bodies of the back edges to it.
C9_OneLoopPerHeader ==
    pc = "done" =>
        /\ DOMAIN loops_ = {e[2] : e \in _back_edges}
        /\ \A h \in DOMAIN loops_ :
               /\ loops_[h].header = h
               /\ loops_[h].body =
                      UNION {NaturalLoop(e[1], h) : e \in BackEdgesTo(h)}

\* C9 witness: process() returned and two back edges with different bodies
\* target one header.
C9_Witness ==
    /\ pc = "done"
    /\ \E e1, e2 \in _back_edges :
           /\ e1 # e2
           /\ e1[2] = e2[2]
           /\ NaturalLoop(e1[1], e1[2]) # NaturalLoop(e2[1], e2[2])

\* The entries and exits of a body: the predecessors (successors) of body
\* nodes that lie outside the body.
ExternalPreds(body) == {p \in Nodes : p \notin body /\ \E n \in body : n \in _succs[p]}
ExternalSuccs(body) == {x \in Nodes : x \notin body /\ \E n \in body : x \in _succs[n]}

\* C10 (as stated): for every back edge (src, dst) the loop of dst has the
\* natural loop of that edge as body, and exactly the external predecessors
\* and successors of the body as entries and exits.
C10_LoopOfEachBackEdge ==
    pc = "done" =>
        \A e \in _back_edges :
            LET loop == _loops[e[2]]
            IN  /\ loop.body = NaturalLoop(e[1], e[2])
                /\ loop.entries = ExternalPreds(loop.body)
                /\ loop.exits = ExternalSuccs(loop.body)

\* C10 (amended): for every back edge (src, dst) the loop of dst has as body
\* the natural loops of all the back edges to dst together, so it contains
\* the natural loop of (src, dst), and exactly the external predecessors and
\* successors of that body as entries and exits.
C10_LoopOfMergedBackEdges ==
    pc = "done" =>
        \A e \in _back_edges :
            LET loop == _loops[e[2]]
            IN  /\ NaturalLoop(e[1], e[2]) \subseteq loop.body
                /\ \A n \in loop.body :
                       \E b \in BackEdgesTo(e[2]) : n \in NaturalLoop(b[1], e[2])
                /\ loop.entries = ExternalPreds(loop.body)
                /\ loop.exits = ExternalSuccs(loop.body)

\* C10 witness: process() returned with a loop that has an entry and an exit.
C10_Witness ==
    /\ pc = "done"
    /\ \E e \in _back_edges :
           /\ _loops[e[2]].entries # {}
           /\ _loops[e[2]].exits # {}
           /\ Cardinality(_loops[e[2]].body) >= 2

\* The assertion of _find_back_edges failed: the dominators were computed
\* and process() stopped before any loop was recorded.
BackEdgeAssertionFailed ==
    /\ pc = "failed"
    /\ raised = "AssertionError"
    /\ _doms # Unset
    /\ _in_loops = Unset

\* C11: for every graph process() is given, no node has two successors that
\* dominate it, so the assertion of _find_back_edges never fails.
C11_AtMostOneBackEdgePerNode ==
    /\ ~ BackEdgeAssertionFailed
    /\ _doms # Unset => BackEdgeAssertion(_nodes, _succs, _doms)

\* The true exit points: the live nodes without successors.
TrueExits == {e \in _nodes : _succs[e] = {}}

\* The true exit points reachable from n.
ReachableExits(n) == ReachAvoiding(_succs, n, dummy_exit) \cap TrueExits

\* Some path from n ends (at a true exit point, or in an exit-less loop)
\* without passing through e.
CanEndAvoiding(n, e) ==
    \E x \in ReachAvoiding(_succs, n, e) :
        \/ x \in TrueExits
        \/ \E h \in DOMAIN _loops :
               x \in _loops[h].body /\ _loops[h].exits = {}

\* C12 (as stated): after process(), every true exit point reachable from a
\* live node n is in post_dominators()[n].
C12_ReachableExitsPostDominate ==
    pc = "done" =>
        \A n \in _nodes : ReachableExits(n) \subseteq post_dominators[n]

\* C12 (amended): after process(), a true exit point is in
\* post_dominators()[n] exactly when no path from n ends, at another exit
\* point or in an exit-less loop, without passing through it.
C12_UnavoidableExitsPostDominate ==
    pc = "done" =>
        \A n \in _nodes : \A e \in TrueExits :
            (e \in post_dominators[n]) <=> ~ CanEndAvoiding(n, e)

\* C12 witness: process() returned for a graph where a node reaches two true
\* exit points, neither of which is among its post-dominators.
C12_Witness ==
    /\ pc = "done"
    /\ \E n \in _nodes :
           /\ Cardinality(ReachableExits(n)) >= 2
           /\ ReachableExits(n) \cap post_dominators[n] = {}

\* C14: during the dominator and the post-dominator fixed points no node's
\* set ever grows; every update replaces the set of one node by a proper
\* subset of it, and the assertion on the sizes never fails, for every graph
\* and every order of the worklist.
C14_DominatorSetsShrink ==
    [][(pc \in {"doms", "post_doms"} /\ todo # << >>) =>
           /\ pc' # "failed"
           /\ \A n \in DOMAIN doms : doms'[n] \subseteq doms[n]
           /\ doms' # doms =>
                  \E n \in DOMAIN doms :
                      /\ doms'[n] # doms[n]
                      /\ Cardinality(doms'[n]) < Cardinality(doms[n])
                      /\ \A m \in DOMAIN doms : m # n => doms'[m] = doms[m]
      ]_vars

\* C14 witness: the post-dominator fixed point is under way and the set of
\* some node has already been replaced by a smaller one that still holds
\* another node.
C14_Witness ==
    /\ pc = "post_doms"
    /\ todo # << >>
    /\ \E n \in _nodes :
           /\ doms[n] # _nodes
           /\ n \notin _exit_points
           /\ Cardinality(doms[n]) >= 2

\* C13: both worklist computations terminate: once the dominator fixed
\* point has started its table is eventually returned, and once the
\* post-dominator fixed point has started process() eventually returns,
\* whether or not the graph has loops without exits or no exit point at all.
C13_FixedPointsTerminate ==
    /\ (pc = "doms") ~> (_doms # Unset)
    /\ (pc = "post_doms") ~> (pc = "done")

\* C13 witness: process() returned for a graph that has no exit point and a
\* loop nothing leaves.
C13_Witness ==
    /\ pc = "done"
    /\ _exit_points = {}
    /\ \E h \in DOMAIN _loops :
           _loops[h].exits = {} /\ Cardinality(_loops[h].body) >= 2

\* C15 (as stated): process() raises when it is called before an entry
\* point is set, and it raises when the graph has no exit point, so that it
\* never returns for a graph without a live node that has no successors.
C15_RaisesWithoutEntryOrExits ==
    /\ (pc # "build" /\ _entry_point = None) =>
           (pc = "failed" /\ raised = "RuntimeError")
    /\ pc = "done" => TrueExits # {}

\* C15 (amended): process() raises RuntimeError exactly when it is called
\* before an entry point is set; the lack of exit points never makes it
\* raise RuntimeError.
C15_RaisesOnlyWithoutEntry ==
    /\ (pc # "build" /\ _entry_point = None) =>
           (pc = "failed" /\ raised = "RuntimeError")
    /\ raised = "RuntimeError" => _entry_point = None

\* C15 witness: process() returned for a graph in which every live node has
\* a successor.
C15_Witness ==
    /\ pc = "done"
    /\ raised = "none"
    /\ \A n \in _nodes : _succs[n] # {}

\* The node is an endpoint of an edge held in one of the three tables.
TouchesEdge(d) ==
    \/ _preds[d] # {}
    \/ _succs[d] # {}
    \/ \E n \in NodeU : d \in _preds[n] \/ d \in _succs[n]
    \/ \E k \in EdgeKeys(_edge_data) : k[1] = d \/ k[2] = d

\* C16: after process(), nodes() is exactly the set of nodes reachable from
\* the entry point, dead_nodes() is exactly the remaining added nodes, and
\* no edge of the predecessor, successor or edge-data tables has a dead node
\* as an endpoint.
C16_DeadBlocksEliminated ==
    [][/\ (pc = "build" /\ pc' = "doms") =>
            /\ _nodes' = ReachAvoiding(_succs, _entry_point, dummy_exit)
            /\ _dead_nodes' = _nodes \ _nodes'
       /\ pc # "build" => (_nodes' = _nodes /\ _dead_nodes' = _dead_nodes)
       /\ pc' = "done" =>
            /\ _nodes' = ReachAvoiding(_succs', _entry_point', dummy_exit)
            /\ \A d \in _dead_nodes' : ~ TouchesEdge(d)'
            /\ \A k \in EdgeKeys(_edge_data') : k[2] \in _succs'[k[1]]
      ]_vars

\* C16 witness: process() returned for a graph with a live node besides the
\* entry point and a dead node.
C16_Witness ==
    /\ pc = "done"
    /\ _dead_nodes # {}
    /\ Cardinality(_nodes) >= 2

\* ============================================================ Assigner
\* The temporaries ($-names, Var.is_temp) and the other variable names of a
\* block.
Temps == {"$1", "$2"}
Locals == {"x", "z"}
VarNames == Temps \cup Locals
\* Var.is_temp
is_temp(name) == name \in Temps

\* dict.pop(key) / del on a function: the function without the key.
Without(f, key) == [k \in (DOMAIN f) \ {key} |-> f[k]]

\* Assigner.__init__
AsgInit ==
    /\ dest_to_src = << >>
    /\ src_invalidate = << >>
    /\ unused_dests = {}
    /\ asg_ret = "none"
    /\ asg_arg = "none"
    /\ asg_raised = "none"
    /\ asg_calls = 0
    /\ rewritten_since = [t \in Temps |-> {}]
    /\ stale_returned = FALSE

\* The component is left as constructed (used by the other components).
AsgIdle == UNCHANGED asgVars

\* Assigner.assign, lines 52-53: dest_to_src.pop(d) for each d of the list
\* popped from src_invalidate, in order; ok is FALSE when a pop raises
\* KeyError, and map is then the table at that moment.
RECURSIVE PopEach(_, _)
PopEach(map, ds) ==
    IF ds = << >> THEN [map |-> map, ok |-> TRUE]
    ELSE IF Head(ds) \notin DOMAIN map THEN [map |-> map, ok |-> FALSE]
    ELSE PopEach(Without(map, Head(ds)), Tail(ds))

\* Assigner.assign, lines 50-53: the invalidation of the simplifications
\* that read destname.
Invalidate(d2s, inval, destname) ==
    IF destname \in DOMAIN inval
    THEN LET r == PopEach(d2s, inval[destname])
         IN  [d2s |-> r.map, inval |-> Without(inval, destname), ok |-> r.ok]
    ELSE [d2s |-> d2s, inval |-> inval, ok |-> TRUE]

\* Assigner.assign, lines 54-55: the source the assignment is simplified to.
SimplifiedSource(d2s, srcname) ==
    IF srcname \in DOMAIN d2s THEN d2s[srcname] ELSE srcname

\* Assigner.assign, line 58: src_invalidate[srcname].append(destname).
AppendInvalidate(inval, srcname, destname) ==
    IF srcname \in DOMAIN inval
    THEN [inval EXCEPT ![srcname] = Append(@, destname)]
    ELSE inval @@ (srcname :> << destname >>)

\* Assigner.assign(srcvar, destvar)
assign(srcname, destname) ==
    /\ asg_raised = "none"
    /\ asg_calls < MaxAssigns
    /\ asg_calls' = asg_calls + 1
    /\ asg_arg' = srcname
    /\ LET i == Invalidate(dest_to_src, src_invalidate, destname)
           srcvar == SimplifiedSource(i.d2s, srcname)
       IN  IF ~ i.ok
           THEN /\ asg_raised' = "KeyError"
                /\ dest_to_src' = i.d2s
                /\ src_invalidate' = i.inval
                /\ asg_ret' = "none"
                /\ UNCHANGED << unused_dests, rewritten_since,
                                stale_returned >>
           ELSE /\ asg_ret' = srcvar
                /\ stale_returned' =
                       (is_temp(srcname) /\ srcvar # srcname
                            /\ srcvar \in rewritten_since[srcname])
                /\ rewritten_since' =
                       [t \in Temps |-> IF t = destname THEN {}
                                        ELSE rewritten_since[t] \cup {destname}]
                /\ IF is_temp(destname)
                   THEN /\ dest_to_src' =
                               Without(i.d2s, destname) @@ (destname :> srcvar)
                        /\ src_invalidate' =
                               AppendInvalidate(i.inval, srcname, destname)
                        /\ unused_dests' = unused_dests \cup {destname}
                   ELSE /\ dest_to_src' = i.d2s
                        /\ src_invalidate' = i.inval
                        /\ UNCHANGED unused_dests
                /\ UNCHANGED asg_raised

\* Assigner.get_assignment_source(destname); asg_ret is "None" when the
\* method returns None.
get_assignment_source(destname) ==
    /\ asg_raised = "none"
    /\ asg_calls > 0
    /\ asg_arg' = destname
    /\ IF destname \in DOMAIN dest_to_src
       THEN /\ asg_ret' = dest_to_src[destname]
            /\ stale_returned' =
                   (is_temp(destname)
                        /\ dest_to_src[destname] \in rewritten_since[destname])
            /\ UNCHANGED unused_dests
       ELSE /\ asg_ret' = "None"
            /\ stale_returned' = FALSE
            /\ unused_dests' = unused_dests \ {destname}
    /\ UNCHANGED << dest_to_src, src_invalidate, asg_raised, asg_calls,
                    rewritten_since >>

AsgSteps ==
    \/ \E srcname, destname \in VarNames : assign(srcname, destname)
    \/ \E destname \in VarNames : get_assignment_source(destname)

\* ------------------------------------------------ Assigner: properties
\* C4: once a name X is assigned to, no later assign or
\* get_assignment_source call returns X as the substitute of a temporary
\* whose substitution was recorded before that assignment.
C4_NoStaleSubstitute == ~ stale_returned

\* =================================================== Interpreter.store
\* The offsets of the blocks of the translated function, the first block at
\* offset 0, and the variable names it stores to.
Blocks == 0 .. (MaxBlocks - 1)
StoreNames == {"a", "c"}

\* ControlFlowAnalysis.__init__ and Interpreter.interpret up to cfa.run();
\* the cell variables of the code object are any of its names.
StoreInit ==
    /\ cfa_loops = {}
    /\ cfa_backbone = Unset
    /\ current_block_offset = None
    /\ code_cellvars \in SUBSET StoreNames
    /\ scope_version = [n \in StoreNames |-> -1]
    /\ interp_pc = "cfa"
    /\ last_store = [call |-> "none"]

\* The component when it is not the one under study.
StoreIdleInit ==
    /\ cfa_loops = {}
    /\ cfa_backbone = Unset
    /\ current_block_offset = None
    /\ code_cellvars = {}
    /\ scope_version = [n \in StoreNames |-> -1]
    /\ interp_pc = "cfa"
    /\ last_store = [call |-> "none"]

StoreIdle == UNCHANGED storeVars

\* ControlFlowAnalysis.op_SETUP_LOOP: the instruction at offset, with jump
\* target end, records the range (offset, end).
op_SETUP_LOOP(offset, end) ==
    /\ interp_pc = "cfa"
    /\ offset < end
    /\ Cardinality(cfa_loops \cup {<< offset, end >>}) <= MaxSetupLoops
    /\ cfa_loops' = cfa_loops \cup {<< offset, end >>}
    /\ UNCHANGED << cfa_backbone, current_block_offset, code_cellvars,
                    scope_version, interp_pc, last_store >>

\* ControlFlowAnalysis.run, lines 466-471: the blocks inside a SETUP_LOOP
\* range.
inloopblocks(blocks, ranges) ==
    {b \in blocks : \E r \in ranges : r[1] <= b /\ b < r[2]}

\* ControlFlowAnalysis.run, lines 461-473, for the set graph.backbone()
\* returned.
cfa_run(graph_backbone) ==
    /\ interp_pc = "cfa"
    /\ 0 \in graph_backbone
    /\ cfa_backbone' = graph_backbone \ inloopblocks(Blocks, cfa_loops)
    /\ interp_pc' = "interp"
    /\ UNCHANGED << cfa_loops, current_block_offset, code_cellvars,
                    scope_version, last_store >>

\* Interpreter._start_new_block(offset), for the live blocks in sequence of
\* occurrence (Interpreter._iter_inst, insert_block).
_start_new_block(offset) ==
    /\ interp_pc = "interp"
    /\ current_block_offset = None \/ current_block_offset < offset
    /\ current_block_offset' = offset
    /\ UNCHANGED << cfa_loops, cfa_backbone, code_cellvars, scope_version,
                    interp_pc, last_store >>

\* Mutant of ScopeCall: cell variables are renamed like any other name.
ScopeCall_always_rename(name, redefine, offset, backbone_, cellvars) ==
    IF redefine \/ offset \in backbone_
    THEN "redefine_rename"
    ELSE "get_or_define"

\* Interpreter.store, lines 282-286: the Scope method the store calls.
ScopeCall(name, redefine, offset, backbone_, cellvars) ==
    IF redefine \/ offset \in backbone_
    THEN IF ~ (name \in cellvars) THEN "redefine_rename" ELSE "redefine_keep"
    ELSE "get_or_define"

\* Scope.redefine / Scope.get_or_define: the version of the name the store
\* targets, given the latest version (-1 when the name is undefined).
TargetVersion(call, latest) ==
    IF latest = -1 THEN 0
    ELSE IF call = "redefine_rename" THEN latest + 1
    ELSE latest

\* Interpreter.store(value, name, redefine)
store(name, redefine) ==
    /\ interp_pc = "interp"
    /\ current_block_offset # None
    /\ scope_version[name] < MaxVersions
    /\ LET call == ScopeCall(name, redefine, current_block_offset,
                             cfa_backbone, code_cellvars)
           target == TargetVersion(call, scope_version[name])
       IN  /\ scope_version' = [scope_version EXCEPT ![name] = target]
           /\ last_store' = [call |-> call, name |-> name,
                             redefine |-> redefine,
                             offset |-> current_block_offset,
                             before |-> scope_version[name],
                             target |-> target]
    /\ UNCHANGED << cfa_loops, cfa_backbone, current_block_offset,
                    code_cellvars, interp_pc >>

StoreSteps ==
    \/ \E offset \in Blocks, end \in 1 .. MaxBlocks : op_SETUP_LOOP(offset, end)
    \/ \E graph_backbone \in SUBSET Blocks : cfa_run(graph_backbone)
    \/ \E offset \in Blocks : _start_new_block(offset)
    \/ \E name \in StoreNames, redefine \in BOOLEAN : store(name, redefine)

\* ------------------------------------------- Interpreter.store: properties
\* A store() call has been made.
Stored == last_store.call # "none"

\* The last store asked the scope for a new version of the name.
AskedNewVersion == last_store.call = "redefine_rename"

\* The last store was made on the backbone or with redefine set.
OnBackboneOrRedefine ==
    last_store.redefine \/ last_store.offset \in cfa_backbone

\* The last store targets the binding the name already had.
InPlace == last_store.before # -1 => last_store.target = last_store.before

\* C6 (as stated): a store creates a new version of the name exactly when
\* the current block is on the backbone or redefinition is requested;
\* otherwise it updates the existing binding in place.
C6_RenameIffBackbone ==
    Stored =>
        /\ AskedNewVersion <=> OnBackboneOrRedefine
        /\ ~ OnBackboneOrRedefine => InPlace

\* C6 (amended): a store creates a new version of the name exactly when the
\* current block is on the backbone or redefinition is requested, and the
\* name is not a cell variable; every other store, and in particular every
\* store without redefine in a block inside a SETUP_LOOP range, updates the
\* existing binding in place.
C6_RenameIffBackboneAndNotCell ==
    Stored =>
        /\ AskedNewVersion <=>
               (OnBackboneOrRedefine /\ last_store.name \notin code_cellvars)
        /\ ~ AskedNewVersion => InPlace
        /\ (last_store.offset \in inloopblocks(Blocks, cfa_loops)
                /\ ~ last_store.redefine) => (~ AskedNewVersion /\ InPlace)

\* C6 witness: a name that already has a binding is stored to, without
\* redefine, in a block inside a SETUP_LOOP range, after it was given a new
\* version by a store on the backbone.
C6_Witness ==
    /\ Stored
    /\ ~ last_store.redefine
    /\ last_store.offset \in inloopblocks(Blocks, cfa_loops)
    /\ last_store.before >= 1
    /\ last_store.target = last_store.before

\* ==================================================================
\* LLVMCodeGenerator (src/numba/codegen/translate.py): reference counting
\* and the return convention of a lowered function.
\*
\* The function body is a sequence of statements over one object local:
\*   g()            an expression statement whose value is an ObjectTempNode
\*   x = g()        an Assign of an ObjectTempNode to a renameable object Name
\*   return g()     a Return of an ObjectTempNode
\*   raise          a PropagateNode
\*   while t: ...   a While, its test native or an ObjectTempNode, its body
\*                  any such statements (loops nest)
\* Each visit_* action emits the instructions the visitor emits; once
\* translate has finished, the exec_* actions run the emitted function.

\* nodes.NULL_obj, the null object pointer.
NULL == 0

\* The object locals of the function.
ObjectLocals == {"x"}

\* Basic blocks of the function: setup_func and setup_return make the first
\* three, visit_If the blocks of each loop.
entry_block == << "entry", 0 >>
cleanup_label == << "cleanup_label", 0 >>
error_label == << "error_label", 0 >>
bb_cond(k) == << "while_condition", k >>
bb_body(k) == << "while_body", k >>
bb_endif(k) == << "exit_while", k >>
NoBlock == << "", 0 >>

\* Stack slots: the return value, one per ObjectTempNode, one per local.
return_value == << "return_value", 0 >>
llvm_temp(k) == << "object_temp", k >>
LocalSlot(name) == << name, 0 >>

\* One instruction: a and b are slots or block labels, r is the number of
\* the call whose result the instruction uses (0 is the NULL constant).
Instr(op, a, b, r) == [op |-> op, a |-> a, b |-> b, r |-> r]
Terminators == {"br", "cbr", "ret"}

\* is_block_terminated
is_block_terminated(f, blk) ==
    /\ Len(f[blk]) > 0
    /\ f[blk][Len(f[blk])].op \in Terminators

\* builder.position_at_end(blk) followed by the emission of instrs.
Emit(f, blk, instrs) == [f EXCEPT ![blk] = @ \o instrs]

\* builder.position_at_beginning(entry block) followed by the emission.
EmitAtEntry(f, instrs) == [f EXCEPT ![entry_block] = instrs \o @]

\* generate_assign_stack: optional incref of the value, optional XDECREF of
\* the previous content of the target, then the store.
generate_assign_stack(r, ltarget, decref, incref) ==
    (IF incref THEN << Instr("incref", NoBlock, NoBlock, r) >> ELSE << >>)
    \o (IF decref THEN << Instr("xdecref_temp", ltarget, NoBlock, 0) >>
                  ELSE << >>)
    \o << Instr("store", ltarget, NoBlock, r) >>

\* _null_obj_temp: the slot is set to NULL at the beginning of the function.
_null_obj_temp(f, slot) ==
    EmitAtEntry(f, generate_assign_stack(0, slot, FALSE, FALSE))

\* xdecref_temp_cleanup: XDECREF of the slot on the end-of-function cleanup
\* path.
xdecref_temp_cleanup(f, slot) ==
    Emit(f, cleanup_label, << Instr("xdecref_temp", slot, NoBlock, 0) >>)

\* object_coercer.check_err: go to the error block when the value is NULL.
check_err(r) == << Instr("check_err", error_label, NoBlock, r) >>

\* visit_ObjectTempNode for the k-th temporary, emitted into blk while
\* self.in_loop is inloop: the call, the store into the temporary (with an
\* XDECREF of the previous content only when inloop is nonzero), the error
\* check and the registration of the cleanup.
visit_ObjectTempNode(f, blk, k, inloop) ==
    LET f1 == _null_obj_temp(f, llvm_temp(k))
        f2 == Emit(f1, blk,
                   << Instr("call", NoBlock, NoBlock, k) >>
                   \o generate_assign_stack(k, llvm_temp(k), inloop # 0, FALSE)
                   \o check_err(k))
    IN  xdecref_temp_cleanup(f2, llvm_temp(k))

\* Mutant of ReturnCode: the return statement returns on the spot.
ReturnCode_direct(r, terminated) ==
    << Instr("store", return_value, NoBlock, r),
       Instr("xincref_temp", return_value, NoBlock, 0),
       Instr("ret", return_value, NoBlock, 0) >>

\* visit_Return for an object return type: store the value, take a reference
\* for the caller, branch to the cleanup block unless the block is terminated.
ReturnCode(r, terminated) ==
    << Instr("store", return_value, NoBlock, r),
       Instr("xincref_temp", return_value, NoBlock, 0) >>
    \o (IF terminated THEN << >>
        ELSE << Instr("br", cleanup_label, NoBlock, 0) >>)

\* The function after setup_func: setup_return has made cleanup_label and
\* error_label, and has emitted self.ast.error_return, a Return of NULL,
\* into error_label.
LowerInit ==
    /\ lfunc = (entry_block :> << >>) @@ (cleanup_label :> << >>)
               @@ (error_label :> ReturnCode(0, FALSE))
    /\ builder_block = entry_block
    /\ object_local_temps = {}
    /\ in_loop = 0
    /\ loop_beginnings = << >>
    /\ n_temps = 0
    /\ n_whiles = 0
    /\ n_visits = 0
    /\ cg_pc = "translate"
    /\ x_pc = << NoBlock, 0 >>
    /\ regs = << >>
    /\ slots = << >>
    /\ refs = [o \in 1 .. MaxObjs |-> 0]
    /\ n_objs = 0
    /\ n_iters = 0
    /\ over_released = FALSE
    /\ faulted = FALSE
    /\ passed_error = FALSE
    /\ ret_block = NoBlock

LowerIdle == UNCHANGED lowerVars

runVars == << x_pc, regs, slots, refs, n_objs, n_iters, over_released,
              faulted, passed_error, ret_block >>

\* A statement can be visited: translation is under way and the builder's
\* block is still open.
CanVisit ==
    /\ cg_pc = "translate"
    /\ n_visits < MaxVisits
    /\ ~ is_block_terminated(lfunc, builder_block)

\* visit_Expr of an ObjectTempNode: the statement g().
visit_Expr ==
    /\ CanVisit
    /\ lfunc' = visit_ObjectTempNode(lfunc, builder_block, n_temps + 1,
                                     in_loop)
    /\ n_temps' = n_temps + 1
    /\ n_visits' = n_visits + 1
    /\ UNCHANGED << builder_block, object_local_temps, in_loop,
                    loop_beginnings, n_whiles, cg_pc, runVars >>

\* visit_Assign of an ObjectTempNode to the renameable object local name:
\* the value is visited, then the slot of the local is made on the first
\* assignment visited (XDECREF of the slot only when a loop is open) or
\* reused (XDECREF always), and the value is stored with an incref.
visit_Assign(name) ==
    /\ CanVisit
    /\ LET k == n_temps + 1
           f1 == visit_ObjectTempNode(lfunc, builder_block, k, in_loop)
           first == name \notin object_local_temps
           f2 == IF first THEN _null_obj_temp(f1, LocalSlot(name)) ELSE f1
           decref == IF first THEN loop_beginnings # << >> ELSE TRUE
       IN  lfunc' = Emit(f2, builder_block,
                         generate_assign_stack(k, LocalSlot(name), decref,
                                               TRUE))
    /\ object_local_temps' = object_local_temps \cup {name}
    /\ n_temps' = n_temps + 1
    /\ n_visits' = n_visits + 1
    /\ UNCHANGED << builder_block, in_loop, loop_beginnings, n_whiles, cg_pc,
                    runVars >>

\* visit_Return of an ObjectTempNode: the statement return g().
visit_Return ==
    /\ CanVisit
    /\ LET k == n_temps + 1
           f1 == visit_ObjectTempNode(lfunc, builder_block, k, in_loop)
       IN  lfunc' = Emit(f1, builder_block,
                         ReturnCode(k, is_block_terminated(f1, builder_block)))
    /\ n_temps' = n_temps + 1
    /\ n_visits' = n_visits + 1
    /\ UNCHANGED << builder_block, object_local_temps, in_loop,
                    loop_beginnings, n_whiles, cg_pc, runVars >>

\* visit_PropagateNode: branch to the error block.
visit_PropagateNode ==
    /\ CanVisit
    /\ lfunc' = Emit(lfunc, builder_block,
                     << Instr("br", error_label, NoBlock, 0) >>)
    /\ n_visits' = n_visits + 1
    /\ UNCHANGED << builder_block, object_local_temps, in_loop,
                    loop_beginnings, n_temps, n_whiles, cg_pc, runVars >>

\* visit_If(is_while=True) up to the visit of the loop body: the condition
\* block is entered from the current block, the test is visited there (an
\* object test is an ObjectTempNode, emitted with the value self.in_loop has
\* before setup_loop), the exit block is made, setup_loop opens the loop and
\* the builder moves to the body. The conditional branch that ends the
\* condition block is the one visit_If emits last.
visit_While_enter(object_test) ==
    /\ CanVisit
    /\ LET w == n_whiles + 1
           f1 == Emit(lfunc, builder_block,
                      << Instr("br", bb_cond(w), NoBlock, 0) >>)
                 @@ (bb_cond(w) :> << >>) @@ (bb_body(w) :> << >>)
                 @@ (bb_endif(w) :> << >>)
           f2 == IF object_test
                 THEN visit_ObjectTempNode(f1, bb_cond(w), n_temps + 1,
                                           in_loop)
                 ELSE f1
       IN  /\ lfunc' = Emit(f2, bb_cond(w),
                            << Instr("cbr", bb_body(w), bb_endif(w), 0) >>)
           /\ builder_block' = bb_body(w)
           /\ loop_beginnings' = Append(loop_beginnings, w)
    /\ in_loop' = in_loop + 1
    /\ n_temps' = IF object_test THEN n_temps + 1 ELSE n_temps
    /\ n_whiles' = n_whiles + 1
    /\ n_visits' = n_visits + 1
    /\ UNCHANGED << object_local_temps, cg_pc, runVars >>

\* visit_If(is_while=True) after the visit of the loop body: the body
\* branches back to the condition block unless it is terminated,
\* teardown_loop closes the loop and the builder moves to the exit block.
visit_While_leave ==
    /\ cg_pc = "translate"
    /\ loop_beginnings # << >>
    /\ LET w == loop_beginnings[Len(loop_beginnings)]
       IN  /\ lfunc' = IF is_block_terminated(lfunc, builder_block)
                       THEN lfunc
                       ELSE Emit(lfunc, builder_block,
                                 << Instr("br", bb_cond(w), NoBlock, 0) >>)
           /\ builder_block' = bb_endif(w)
    /\ loop_beginnings' = SubSeq(loop_beginnings, 1, Len(loop_beginnings) - 1)
    /\ in_loop' = in_loop - 1
    /\ UNCHANGED << object_local_temps, n_temps, n_whiles, n_visits, cg_pc,
                    runVars >>

\* terminate_cleanup_blocks: XDECREF of every object local, in any order of
\* the dictionary, then the return instruction of the function.
terminate_cleanup_blocks(f, order) ==
    Emit(f, cleanup_label,
         [i \in DOMAIN order |->
              Instr("xdecref_temp", LocalSlot(order[i]), NoBlock, 0)]
         \o << Instr("ret", return_value, NoBlock, 0) >>)

\* The stack slots the emitted function allocates.
StackSlots ==
    {return_value} \cup {llvm_temp(k) : k \in 1 .. n_temps}
    \cup {LocalSlot(name) : name \in object_local_temps}

\* translate, after the body has been visited: a body that falls off its
\* end branches to the cleanup block, and the cleanup block is terminated.
\* The function is then complete and a run of it starts at the entry block.
\* No instruction reads a slot before a store to it, except the final load
\* of return_value in a function that falls off its end; the run does not
\* use the loaded value.
translate ==
    /\ cg_pc = "translate"
    /\ loop_beginnings = << >>
    /\ \E order \in IterationOrders(object_local_temps) :
         LET f1 == IF is_block_terminated(lfunc, builder_block)
                   THEN lfunc
                   ELSE Emit(lfunc, builder_block,
                             << Instr("br", cleanup_label, NoBlock, 0) >>)
         IN  lfunc' = terminate_cleanup_blocks(f1, order)
    /\ cg_pc' = "done"
    /\ x_pc' = << entry_block, 1 >>
    /\ regs' = [k \in 0 .. n_temps |-> NULL]
    /\ slots' = [s \in StackSlots |-> NULL]
    /\ UNCHANGED << builder_block, object_local_temps, in_loop,
                    loop_beginnings, n_temps, n_whiles, n_visits, refs, n_objs,
                    n_iters, over_released, faulted, passed_error, ret_block >>

codegenVars == << lfunc, builder_block, object_local_temps, in_loop,
                  loop_beginnings, n_temps, n_whiles, n_visits, cg_pc >>

\* ------------------------------------------------ a run of the function
Running ==
    /\ cg_pc = "done"
    /\ x_pc[1] \in DOMAIN lfunc
    /\ x_pc[2] \in DOMAIN lfunc[x_pc[1]]

CurInstr == lfunc[x_pc[1]][x_pc[2]]

FallThrough == x_pc' = << x_pc[1], x_pc[2] + 1 >> /\ UNCHANGED passed_error

Goto(blk) ==
    /\ x_pc' = << blk, 1 >>
    /\ passed_error' = (passed_error \/ blk = error_label)

\* Py_INCREF / Py_XINCREF of obj.
IncRef(obj) ==
    refs' = IF obj = NULL THEN refs ELSE [refs EXCEPT ![obj] = @ + 1]

\* Py_XDECREF of obj; a decrement of an object that has no reference left
\* is an over-release.
DecRef(obj) ==
    /\ refs' = IF obj = NULL \/ refs[obj] = 0 THEN refs
               ELSE [refs EXCEPT ![obj] = @ - 1]
    /\ over_released' = (over_released \/ (obj # NULL /\ refs[obj] = 0))

\* The call of an object-returning function: a new reference to a new
\* object, or NULL with an exception set.
exec_call ==
    /\ Running
    /\ CurInstr.op = "call"
    /\ \/ /\ n_objs < MaxObjs
          /\ n_objs' = n_objs + 1
          /\ regs' = [regs EXCEPT ![CurInstr.r] = n_objs + 1]
          /\ refs' = [refs EXCEPT ![n_objs + 1] = 1]
          /\ UNCHANGED faulted
       \/ /\ regs' = [regs EXCEPT ![CurInstr.r] = NULL]
          /\ faulted' = TRUE
          /\ UNCHANGED << n_objs, refs >>
    /\ FallThrough
    /\ UNCHANGED << codegenVars, slots, n_iters, over_released, ret_block >>

\* self.incref(value)
exec_incref ==
    /\ Running
    /\ CurInstr.op = "incref"
    /\ IncRef(regs[CurInstr.r])
    /\ FallThrough
    /\ UNCHANGED << codegenVars, regs, slots, n_objs, n_iters, over_released,
                    faulted, ret_block >>

\* self.xincref_temp(slot)
exec_xincref_temp ==
    /\ Running
    /\ CurInstr.op = "xincref_temp"
    /\ IncRef(slots[CurInstr.a])
    /\ FallThrough
    /\ UNCHANGED << codegenVars, regs, slots, n_objs, n_iters, over_released,
                    faulted, ret_block >>

\* self.xdecref_temp(slot)
exec_xdecref_temp ==
    /\ Running
    /\ CurInstr.op = "xdecref_temp"
    /\ DecRef(slots[CurInstr.a])
    /\ FallThrough
    /\ UNCHANGED << codegenVars, regs, slots, n_objs, n_iters, faulted,
                    ret_block >>

\* builder.store(value, slot)
exec_store ==
    /\ Running
    /\ CurInstr.op = "store"
    /\ slots' = [slots EXCEPT ![CurInstr.a] = regs[CurInstr.r]]
    /\ FallThrough
    /\ UNCHANGED << codegenVars, regs, refs, n_objs, n_iters, over_released,
                    faulted, ret_block >>

\* The branch check_err emits: to its target when the value is NULL.
exec_check_err ==
    /\ Running
    /\ CurInstr.op = "check_err"
    /\ IF regs[CurInstr.r] = NULL THEN Goto(CurInstr.a) ELSE FallThrough
    /\ UNCHANGED << codegenVars, regs, slots, refs, n_objs, n_iters,
                    over_released, faulted, ret_block >>

\* builder.branch(target)
exec_br ==
    /\ Running
    /\ CurInstr.op = "br"
    /\ Goto(CurInstr.a)
    /\ UNCHANGED << codegenVars, regs, slots, refs, n_objs, n_iters,
                    over_released, faulted, ret_block >>

\* builder.cbranch(test, bb_true, bb_false): the test is true or false.
exec_cbr ==
    /\ Running
    /\ CurInstr.op = "cbr"
    /\ \/ /\ n_iters < MaxIter
          /\ n_iters' = n_iters + 1
          /\ Goto(CurInstr.a)
       \/ /\ Goto(CurInstr.b)
          /\ UNCHANGED n_iters
    /\ UNCHANGED << codegenVars, regs, slots, refs, n_objs, over_released,
                    faulted, ret_block >>

\* builder.ret(builder.load(self.return_value))
exec_ret ==
    /\ Running
    /\ CurInstr.op = "ret"
    /\ ret_block' = x_pc[1]
    /\ x_pc' = << NoBlock, 0 >>
    /\ UNCHANGED << codegenVars, regs, slots, refs, n_objs, n_iters,
                    over_released, faulted, passed_error >>

LowerSteps ==
    \/ visit_Expr
    \/ \E name \in ObjectLocals : visit_Assign(name)
    \/ visit_Return
    \/ visit_PropagateNode
    \/ \E object_test \in BOOLEAN : visit_While_enter(object_test)
    \/ visit_While_leave
    \/ translate
    \/ exec_call
    \/ exec_incref
    \/ exec_xincref_temp
    \/ exec_xdecref_temp
    \/ exec_store
    \/ exec_check_err
    \/ exec_br
    \/ exec_cbr
    \/ exec_ret

\* ---------------------------------------------------- properties
\* The run has reached the return instruction.
Returned == cg_pc = "done" /\ ret_block # NoBlock

\* C2: when a run of a lowered function reaches the return instruction, on
\* whatever path, every object it handled has had as many references
\* released as acquired (the reference a return statement takes for the
\* caller aside), and none was decremented below zero: nothing is leaked
\* and nothing is over-released.
C2_RefcountsBalanced ==
    /\ ~ over_released
    /\ Returned =>
         \A o \in 1 .. n_objs :
             refs[o] = (IF slots[return_value] = o THEN 1 ELSE 0)

\* The instructions of the emitted function, as << block, index >> pairs.
InstrAt ==
    UNION {{<< blk, i >> : i \in DOMAIN lfunc[blk]} : blk \in DOMAIN lfunc}

Last(blk) == lfunc[blk][Len(lfunc[blk])]

\* C3: a lowered function has one block that returns, the cleanup block,
\* whose last instruction is the function's only return instruction; each
\* return statement stores the value and branches to the cleanup block; a
\* body that falls off its end branches to the cleanup block; every error
\* check branches to the error block, which leads to the cleanup block only;
\* and every run that returns does so from the cleanup block, after the
\* error block if a call failed.
C3_SingleCleanupReturn ==
    /\ cg_pc = "done" =>
         /\ {p \in InstrAt : lfunc[p[1]][p[2]].op = "ret"}
                = { << cleanup_label, Len(lfunc[cleanup_label]) >> }
         /\ \A blk \in DOMAIN lfunc :
                lfunc[blk] # << >> /\ Last(blk).op \in Terminators
         /\ \A p \in InstrAt :
                LET i == lfunc[p[1]][p[2]]
                IN  /\ (i.op = "store" /\ i.a = return_value) =>
                           /\ Last(p[1]).op = "br"
                           /\ Last(p[1]).a = cleanup_label
                    /\ i.op = "check_err" => i.a = error_label
         /\ Last(builder_block).op = "br"
         /\ Last(builder_block).a \in {cleanup_label, error_label}
         /\ Last(error_label).op = "br" /\ Last(error_label).a = cleanup_label
    /\ Returned =>
         /\ ret_block = cleanup_label
         /\ faulted => passed_error

\* C3 witness: a run of a function with a return statement inside a loop
\* has returned after a failed call.
C3_Witness ==
    /\ Returned
    /\ faulted
    /\ passed_error
    /\ n_iters > 0
    /\ \E p \in InstrAt :
          /\ p[1] \notin {error_label, entry_block}
          /\ lfunc[p[1]][p[2]].op = "store"
          /\ lfunc[p[1]][p[2]].a = return_value

\* ===================================== CFGraph.successors / predecessors
\* The per-edge data add_edge may be given.
EdgeData == {None} \cup (1 .. MaxData)

\* No accessor was called yet.
NoCall == << >>

AccInit ==
    /\ acc_call = NoCall
    /\ acc_yielded = << >>
    /\ acc_raised = "none"

AccIdle == UNCHANGED accVars

\* The keys of the defaultdict _succs while the graph is built: _add_edge
\* creates the key from_ (line 188) and nothing else reads the table.
SuccKeys == {n \in NodeU : _succs[n] # {}}

\* The keys of the defaultdict _preds while the graph is built (line 187).
PredKeys == {n \in NodeU : _preds[n] # {}}

\* self._edge_data[from_, to], for a key the dictionary holds.
GetEdgeData(edge_data, from_, to) ==
    (CHOOSE t \in edge_data : t[1] = from_ /\ t[2] = to)[3]

\* A generator that looks up _edge_data[keys[i]] for each i in turn: the
\* position of the first lookup that raises KeyError, one past the end when
\* none does.
FirstMissing(keys, edge_data) ==
    LET missing == {i \in DOMAIN keys : keys[i] \notin EdgeKeys(edge_data)}
    IN  IF missing = {} THEN Len(keys) + 1
        ELSE CHOOSE i \in missing : \A j \in missing : i <= j

\* CFGraph.successors(src), lines 71-72, iterated to its end.
successors(src) ==
    /\ pc = "build"
    /\ acc_call = NoCall
    /\ src \in _nodes
    /\ \E order \in IterationOrders(SuccKeys) :
           LET keys == [i \in DOMAIN order |-> << src, order[i] >>]
               stop == FirstMissing(keys, _edge_data)
           IN  /\ acc_yielded' =
                      [i \in 1 .. stop - 1 |->
                          << order[i], GetEdgeData(_edge_data, src, order[i]) >>]
               /\ acc_raised' = IF stop > Len(order) THEN "none"
                                                     ELSE "KeyError"
    /\ acc_call' = << "successors", src >>
    /\ UNCHANGED cfgVars

\* CFGraph.predecessors(dest), lines 79-80, iterated to its end.
predecessors(dest) ==
    /\ pc = "build"
    /\ acc_call = NoCall
    /\ dest \in _nodes
    /\ \E order \in IterationOrders(PredKeys) :
           LET keys == [i \in DOMAIN order |-> << order[i], dest >>]
               stop == FirstMissing(keys, _edge_data)
           IN  /\ acc_yielded' =
                      [i \in 1 .. stop - 1 |->
                          << order[i], GetEdgeData(_edge_data, order[i], dest) >>]
               /\ acc_raised' = IF stop > Len(order) THEN "none"
                                                     ELSE "KeyError"
    /\ acc_call' = << "predecessors", dest >>
    /\ UNCHANGED cfgVars

\* The graph is built, with per-edge data, until an accessor is called.
AccSteps ==
    \/ /\ acc_call = NoCall
       /\ \/ \E node \in Nodes : add_node(node)
          \/ \E src, dest \in Nodes : \E data \in EdgeData :
                 add_edge(src, dest, data)
       /\ AccIdle
    \/ \E src \in Nodes : successors(src)
    \/ \E dest \in Nodes : predecessors(dest)

\* ------------------------------- successors / predecessors: properties
\* The pairs (node, data) of the edges leaving src.
EdgesLeaving(src) ==
    {<< d, GetEdgeData(_edge_data, src, d) >> : d \in _succs[src]}

\* The pairs (node, data) of the edges entering dest.
EdgesEntering(dest) ==
    {<< n, GetEdgeData(_edge_data, n, dest) >> : n \in _preds[dest]}

\* The pairs of a list, as a set.
Range(list) == {list[i] : i \in DOMAIN list}

\* C17: successors(src) yields exactly one (node, data) pair for each edge
\* leaving src and nothing else, with the data of the most recent add_edge
\* of that edge; predecessors(dest) does the same for the edges entering
\* dest; neither raises for a node of the graph.
C17_AccessorsYieldEdges ==
    acc_call # NoCall =>
        LET expected == IF acc_call[1] = "successors"
                        THEN EdgesLeaving(acc_call[2])
                        ELSE EdgesEntering(acc_call[2])
        IN  /\ acc_raised = "none"
            /\ Range(acc_yielded) = expected
            /\ Len(acc_yielded) = Cardinality(expected)

\* ======================================================= resolve_overload
\* The formal argument types of the candidate signatures.
Types == 1 .. MaxTypes

\* What context.type_compatibility returns for a convertible pair
\* (lines 96-103), and for a pair that is not convertible (line 93).
ConvKinds == {"exact", "promote", "safe", "unsafe"}
Incompatible == "None"

\* Signature.args of the candidates: tuples of one to MaxArgs formal types.
Signatures == UNION {[1 .. n -> Types] : n \in 1 .. MaxArgs}

\* The argument types of the call: MaxArgs arguments of one type.
CallArgs == [i \in 1 .. MaxArgs |-> 0]

\* What resolve_overload returns when it falls off its end (no candidate).
NoCase == << >>

\* Rating.__init__
Rating == [promote |-> 0, safe_convert |-> 0, unsafe_convert |-> 0]

\* Mutant of astuple: the counts are listed best situation first.
astuple_promote_first(self) ==
    << self.promote, self.safe_convert, self.unsafe_convert >>

\* Rating.astuple
astuple(self) == << self.unsafe_convert, self.safe_convert, self.promote >>

\* Rating.__add__
Rating_add(self, other) ==
    [promote        |-> self.promote + other.promote,
     safe_convert   |-> self.safe_convert + other.safe_convert,
     unsafe_convert |-> self.unsafe_convert + other.unsafe_convert]

\* _rate_arguments, lines 91-105: the rating of one conversion.
Rate(by) ==
    IF by = "promote" THEN [Rating EXCEPT !.promote = @ + 1]
    ELSE IF by = "safe" THEN [Rating EXCEPT !.safe_convert = @ + 1]
    ELSE IF by = "unsafe" THEN [Rating EXCEPT !.unsafe_convert = @ + 1]
    ELSE Rating

\* The smaller of two lengths: zip stops at the shorter sequence.
ZipLen(a, b) == IF Len(a) <= Len(b) THEN Len(a) ELSE Len(b)

\* _rate_arguments: the list of ratings, << >> for None.
_rate_arguments(context, actualargs, formalargs) ==
    LET n == ZipLen(actualargs, formalargs)
    IN  IF \E i \in 1 .. n : context[formalargs[i]] = Incompatible
        THEN << >>
        ELSE [i \in 1 .. n + 1 |->
                 IF i = 1 THEN Rating ELSE Rate(context[formalargs[i - 1]])]

\* reduce(operator.add, ratings)
RECURSIVE ReduceAdd(_)
ReduceAdd(ratings) ==
    IF Len(ratings) = 1 THEN ratings[1]
    ELSE Rating_add(ReduceAdd(SubSeq(ratings, 1, Len(ratings) - 1)),
                    ratings[Len(ratings)])

\* Python's a < b on two tuples of integers of the same length.
TupleLess(a, b) ==
    \E i \in DOMAIN a : a[i] < b[i] /\ \A j \in 1 .. i - 1 : a[j] = b[j]

\* Python's a < b on two tuples of such tuples, of the same length.
NestedTupleLess(a, b) ==
    \E i \in DOMAIN a :
        TupleLess(a[i], b[i]) /\ \A j \in 1 .. i - 1 : a[j] = b[j]

\* resolve_overload, lines 114-122: the list zip(symm_ratings, candids).
RECURSIVE RateCases(_, _, _)
RateCases(context, cs, args) ==
    IF cs = << >> THEN << >>
    ELSE LET rest    == RateCases(context, SubSeq(cs, 1, Len(cs) - 1), args)
             case    == cs[Len(cs)]
             ratings == _rate_arguments(context, args, case)
         IN  IF Len(args) = Len(case) /\ ratings # << >>
             THEN Append(rest, << astuple(ReduceAdd(ratings)), case >>)
             ELSE rest

\* sorted(..., key=lambda i: i[0]), line 125, is stable: an item goes after
\* the items whose key is not greater than its own.
SortedInsert(ordered, item) ==
    LET k == Cardinality({i \in DOMAIN ordered :
                              ~ TupleLess(item[1], ordered[i][1])})
    IN  SubSeq(ordered, 1, k) \o << item >>
            \o SubSeq(ordered, k + 1, Len(ordered))

RECURSIVE Sorted(_)
Sorted(items) ==
    IF items = << >> THEN << >>
    ELSE SortedInsert(Sorted(SubSeq(items, 1, Len(items) - 1)),
                      items[Len(items)])

\* Mutant of MaxFirst: min(ratings, key=...) in the place of max.
MaxFirst_min(ratings) ==
    LET least == {i \in DOMAIN ratings :
                     \A j \in DOMAIN ratings :
                         ~ NestedTupleLess(ratings[j][1], ratings[i][1])}
    IN  ratings[CHOOSE i \in least : \A j \in least : i <= j]

\* max(ratings, key=lambda x: x[0]), line 162: the first item whose key no
\* other key exceeds.
MaxFirst(ratings) ==
    LET greatest == {i \in DOMAIN ratings :
                        \A j \in DOMAIN ratings :
                            ~ NestedTupleLess(ratings[i][1], ratings[j][1])}
    IN  ratings[CHOOSE i \in greatest : \A j \in greatest : i <= j]

\* resolve_ambiguous_resolution, lines 157-162.
resolve_ambiguous_resolution(context, cs, args) ==
    LET ratings == [i \in DOMAIN cs |->
                       LET rates == _rate_arguments(context, args, cs[i])
                       IN  << [k \in DOMAIN rates |-> astuple(rates[k])],
                              cs[i] >>]
    IN  MaxFirst(ratings)[2]

\* bool(x) of what resolve_ambiguous_resolution returned: a Signature
\* defines neither __bool__ nor __len__, so every Signature is true.
Truth(resolvable) == resolvable # NoCase

\* resolve_overload, lines 134-137: the cases of ordered rated as the first.
Ambiguous(ordered) ==
    LET idx == {i \in DOMAIN ordered : ordered[i][1] = ordered[1][1]}
    IN  [k \in 1 .. Cardinality(idx) |->
            ordered[CHOOSE i \in idx :
                        Cardinality({j \in idx : j < i}) = k - 1][2]]

\* resolve_overload, lines 111-151: the outcome of the call.
resolve_overload_outcome(context, cs, args) ==
    LET ordered == Sorted(RateCases(context, cs, args))
    IN  IF ordered = << >>
        THEN [status |-> "returned", value |-> NoCase]
        ELSE IF /\ Len(ordered) > 1
                /\ ordered[1][1] = ordered[2][1]
                /\ ordered[1][2] # ordered[2][2]
        THEN LET resolvable ==
                     resolve_ambiguous_resolution(context, Ambiguous(ordered),
                                                  args)
             IN  IF Truth(resolvable)
                 THEN [status |-> "returned", value |-> resolvable]
                 ELSE [status |-> "TypeError", value |-> NoCase]
        ELSE [status |-> "returned", value |-> ordered[1][2]]

\* A template with no case yet, under any context.
OvlInit ==
    /\ type_compatibility \in [Types -> ConvKinds \cup {Incompatible}]
    /\ cases = << >>
    /\ ovl_status = "pending"
    /\ ovl_value = NoCase

\* The component as the other components leave it.
OvlIdleInit ==
    /\ type_compatibility = [t \in Types |-> "exact"]
    /\ cases = << >>
    /\ ovl_status = "pending"
    /\ ovl_value = NoCase

OvlIdle == UNCHANGED ovlVars

\* make_concrete_template, line 39: one more signature in the cases.
add_case(sig) ==
    /\ ovl_status = "pending"
    /\ Len(cases) < MaxCases
    /\ cases' = Append(cases, sig)
    /\ UNCHANGED << type_compatibility, ovl_status, ovl_value >>

\* resolve_overload(context, key, cases, args, {})
resolve_overload ==
    /\ ovl_status = "pending"
    /\ LET out == resolve_overload_outcome(type_compatibility, cases, CallArgs)
       IN  /\ ovl_status' = out.status
           /\ ovl_value' = out.value
    /\ UNCHANGED << type_compatibility, cases >>

OvlSteps ==
    \/ \E sig \in Signatures : add_case(sig)
    \/ resolve_overload

\* ------------------------------------------ resolve_overload: properties
\* The candidates: the cases of the call's arity whose every formal type the
\* argument type converts to.
Candidates ==
    {cases[i] : i \in {k \in DOMAIN cases :
        /\ Len(cases[k]) = Len(CallArgs)
        /\ \A a \in DOMAIN cases[k] :
               type_compatibility[cases[k][a]] # Incompatible}}

\* The conversion each argument needs under a candidate.
PerArgKinds(c) == [a \in DOMAIN c |-> type_compatibility[c[a]]]

\* The number of arguments that need the conversion kind.
KindCount(c, kind) ==
    Cardinality({a \in DOMAIN c : type_compatibility[c[a]] = kind})

\* The summed rating tuple (unsafe, safe, promote) of a candidate.
SummedTuple(c) ==
    << KindCount(c, "unsafe"), KindCount(c, "safe"), KindCount(c, "promote") >>

\* The candidates no candidate has a smaller summed rating tuple than.
MinCandidates ==
    {c \in Candidates :
        \A d \in Candidates : ~ TupleLess(SummedTuple(d), SummedTuple(c))}

\* The call was made.
Resolved == ovl_status # "pending"

\* C18: among the cases of matching arity whose every argument is
\* convertible, resolve_overload returns one whose summed rating tuple
\* (unsafe, safe, promote) is lexicographically smallest; it returns no
\* candidate with a strictly larger tuple, and returns none only when there
\* is no candidate.
C18_ReturnsSmallestSummedRating ==
    (Resolved /\ ovl_status = "returned") =>
        IF Candidates = {} THEN ovl_value = NoCase
        ELSE ovl_value \in MinCandidates

\* C18 witness: the case returned is not the first candidate registered, and
\* a candidate with a strictly larger summed tuple was passed over.
C18_Witness ==
    /\ ovl_status = "returned"
    /\ ovl_value \in Candidates
    /\ cases[1] \in Candidates
    /\ TupleLess(SummedTuple(ovl_value), SummedTuple(cases[1]))
    /\ SummedTuple(ovl_value) # << 0, 0, 0 >>

\* C19: when two or more distinct candidates tie on the smallest summed
\* rating tuple and their per-argument ratings are identical too, so that
\* the secondary rule cannot separate them, resolve_overload raises an
\* ambiguous-overload error and returns no candidate.
C19_UnresolvableTieRaises ==
    (/\ Resolved
     /\ Cardinality(MinCandidates) >= 2
     /\ \A c, d \in MinCandidates : PerArgKinds(c) = PerArgKinds(d))
        => ovl_status = "TypeError"

\* The cost of a conversion kind: exact < promote < safe < unsafe.
Cost(kind) ==
    IF kind = "unsafe" THEN 3
    ELSE IF kind = "safe" THEN 2
    ELSE IF kind = "promote" THEN 1
    ELSE 0

\* The cost of the most costly argument conversion of a candidate.
WorstCost(c) ==
    CHOOSE w \in {Cost(PerArgKinds(c)[a]) : a \in DOMAIN c} :
        \A a \in DOMAIN c : Cost(PerArgKinds(c)[a]) <= w

\* The tied candidates in the order of the cases.
TiedIndexes == {i \in DOMAIN cases : cases[i] \in MinCandidates}
FirstTied == CHOOSE i \in TiedIndexes : \A j \in TiedIndexes : i <= j
SecondTied ==
    CHOOSE i \in TiedIndexes \ {FirstTied} :
        \A j \in TiedIndexes \ {FirstTied} : i <= j

\* The secondary rule is applied: at least two candidates tie, and the two
\* first of them are different signatures.
SecondaryRuleApplies ==
    /\ Cardinality(TiedIndexes) >= 2
    /\ cases[FirstTied] # cases[SecondTied]

\* At the first argument where the conversions of c and d differ, the one of
\* c is the more costly.
CostlierEarlier(c, d) ==
    \E a \in DOMAIN c :
        /\ Cost(PerArgKinds(c)[a]) > Cost(PerArgKinds(d)[a])
        /\ \A b \in 1 .. a - 1 : PerArgKinds(c)[b] = PerArgKinds(d)[b]

KindRank(kind) ==
    IF kind = "bool" THEN 0
    ELSE IF kind = "int" THEN 1
    ELSE IF kind = "float" THEN 2
    ELSE 3

\* A numeric type: its kind, its size in bytes, and its rank, which orders
\* the types by kind and then by size.
NumericType(kind, size) ==
    [kind |-> kind, itemsize |-> size, rank |-> KindRank(kind) * 100 + size]

bool_ == NumericType("bool", 1)
\* The lists integral, floating and complextypes, narrowest first.
integral == << NumericType("int", 1), NumericType("int", 2),
               NumericType("int", 4), NumericType("int", 8) >>
floating == << NumericType("float", 4), NumericType("float", 8) >>
complextypes == << NumericType("complex", 8), NumericType("complex", 16) >>

int32 == integral[3]
int64 == integral[4]
float32 == floating[1]
float64 == floating[2]
complex64 == complextypes[1]

\* The other scalar types: pointers (by base type), null, object, struct.
PointerType(base) == [kind |-> "pointer", base |-> base]
char_pointer == PointerType("char")
null_type == [kind |-> "null"]
object_ == [kind |-> "object"]
struct_type == [kind |-> "struct"]

\* universe.array(dtype, ndim, is_c_contig, is_f_contig)
array(dtype, ndim, is_c_contig, is_f_contig) ==
    [kind |-> "array", dtype |-> dtype, ndim |-> ndim,
     is_c_contig |-> is_c_contig, is_f_contig |-> is_f_contig]

\* The type attributes promote reads.
is_numeric(type) == type.kind \in {"bool", "int", "float", "complex"}
is_int(type) == type.kind = "int"
is_float(type) == type.kind = "float"
is_complex(type) == type.kind = "complex"
is_array(type) == type.kind = "array"
is_object(type) == type.kind = "object"

\* The elements of a list, as a set.
Elements(list) == {list[i] : i \in DOMAIN list}

NumericTypes ==
    {bool_} \cup Elements(integral) \cup Elements(floating)
        \cup Elements(complextypes)
ScalarTypes ==
    NumericTypes \cup {char_pointer, PointerType("int32"), null_type,
                       object_, struct_type}
ArrayTypes ==
    {array(dtype, ndim, flags[1], flags[2]) :
        dtype \in {int32, float64, object_}, ndim \in 1 .. MaxNdim,
        flags \in {<< TRUE, FALSE >>, << FALSE, TRUE >>, << FALSE, FALSE >>}}
AllTypes == ScalarTypes \cup ArrayTypes

\* ---- promotion.py
\* The outcome of a call: the type returned, or the exception raised.
NoType == [kind |-> "none"]
Returned_(type) == [status |-> "returned", value |-> type]
Raised_(exception) == [status |-> exception, value |-> NoType]

\* The promotion table on kinds, lines 10-17; "none" where table.get
\* returns None.
table(kind1, kind2) ==
    IF << kind1, kind2 >> \in {<< "pointer", "int" >>, << "int", "pointer" >>,
                              << "pointer", "null" >>, << "null", "pointer" >>}
    THEN "pointer"
    ELSE IF kind1 = "object" /\ kind2 = "object" THEN "object"
    ELSE IF kind1 = "bool" /\ kind2 = "bool" THEN "bool"
    ELSE "none"

\* promote_from_table, lines 19-23: NoType for None.  In the dictionary
\* {type1.kind: type1, type2.kind: type2} the second item replaces the
\* first when the kinds are equal.
promote_from_table(t1, t2) ==
    LET result == table(t1.kind, t2.kind)
    IN  IF result = "none" THEN NoType
        ELSE IF t2.kind = result THEN t2
        ELSE t1

\* find_type_of_size, lines 29-34.
find_type_of_size(size, typelist) ==
    LET found == {i \in DOMAIN typelist : typelist[i].itemsize = size}
    IN  IF found = {} THEN Raised_("AssertionError")
        ELSE Returned_(typelist[CHOOSE i \in found : \A j \in found : i <= j])

\* Mutant of itemsize: a complex type counts with its whole size.
itemsize_whole(type) == type.itemsize

\* promote_numeric, lines 40-42: a complex type counts as half its size.
itemsize(type) ==
    IF is_complex(type) THEN type.itemsize \div 2 ELSE type.itemsize

\* max([type1, type2], key=rank): the first of the greatest.
MaxByRank(t1, t2) == IF t2.rank > t1.rank THEN t2 ELSE t1

\* max(a, b) on integers.
Max(a, b) == IF a >= b THEN a ELSE b

\* promote_numeric, lines 36-53.
promote_numeric(t1, t2) ==
    LET type == MaxByRank(t1, t2)
        size == Max(itemsize(t1), itemsize(t2))
    IN  IF t1.kind # t2.kind
        THEN IF is_complex(type) THEN find_type_of_size(size * 2, complextypes)
             ELSE IF is_float(type) THEN find_type_of_size(size, floating)
             ELSE IF is_int(type) THEN find_type_of_size(size, integral)
             ELSE Raised_("AssertionError")
        ELSE Returned_(type)

RECURSIVE promote(_, _, _)

\* promote_arrays, lines 59-67.
promote_arrays(u, t1, t2) ==
    LET equal_ndim == t1.ndim = t2.ndim
        dtype      == promote(u, t1.dtype, t2.dtype)
    IN  IF dtype.status # "returned" THEN dtype
        ELSE Returned_(array(dtype.value, Max(t1.ndim, t2.ndim),
                             equal_ndim /\ t1.is_c_contig /\ t2.is_c_contig,
                             equal_ndim /\ t1.is_f_contig /\ t2.is_f_contig))

\* promote_array_and_other, lines 69-82; u.array(dtype, ndim) leaves both
\* contiguity flags false.
promote_array_and_other(u, t1, t2) ==
    LET array_type == IF is_array(t1) THEN t1 ELSE t2
        other_type == IF is_array(t1) THEN t2 ELSE t1
    IN  IF is_object(other_type) /\ ~ is_object(array_type.dtype)
        THEN Returned_(object_)
        ELSE LET dtype == promote(u, array_type.dtype, other_type)
             IN  IF dtype.status # "returned" THEN dtype
                 ELSE Returned_(array(dtype.value, array_type.ndim,
                                      FALSE, FALSE))

\* DefaultPromoter.promote, lines 94-113; u is universe.c_string_type, the
\* one attribute of the universe that is not fixed above.
promote(u, t1, t2) ==
    LET result == promote_from_table(t1, t2)
    IN  IF result # NoType THEN Returned_(result)
        ELSE IF is_numeric(t1) /\ is_numeric(t2) THEN promote_numeric(t1, t2)
        ELSE IF is_array(t1) /\ is_array(t2) THEN promote_arrays(u, t1, t2)
        ELSE IF is_array(t1) \/ is_array(t2)
        THEN promote_array_and_other(u, t1, t2)
        ELSE IF t1 = char_pointer THEN Returned_(u)
        ELSE IF is_object(t1) \/ is_object(t2) THEN Returned_(object_)
        ELSE Raised_("TypeError")

\* Any two types, under a universe whose c_string_type is char.pointer()
\* or a type of its own.
PromInit ==
    /\ c_string_type \in {char_pointer, [kind |-> "c_string"]}
    /\ type1 \in AllTypes
    /\ type2 \in AllTypes
    /\ prom_status = "pending"
    /\ prom_value = NoType

\* The component as the other components leave it.
PromIdleInit ==
    /\ c_string_type = char_pointer
    /\ type1 = object_
    /\ type2 = object_
    /\ prom_status = "pending"
    /\ prom_value = NoType

PromIdle == UNCHANGED promVars

\* The call promote(type1, type2).
promote_call ==
    /\ prom_status = "pending"
    /\ LET out == promote(c_string_type, type1, type2)
       IN  /\ prom_status' = out.status
           /\ prom_value' = out.value
    /\ UNCHANGED << c_string_type, type1, type2 >>

PromSteps == promote_call

\* ------------------------------------------------- promote: properties
\* The call was made.
Promoted == prom_status # "pending"

\* C21: promotion is commutative: promote(T1, T2) and promote(T2, T1)
\* either both raise or both return the same type.
C21_PromoteCommutative ==
    Promoted =>
        LET swapped == promote(c_string_type, type2, type1)
        IN  IF prom_status = "returned"
            THEN swapped.status = "returned" /\ swapped.value = prom_value
            ELSE swapped.status # "returned"

\* C22: promotion is idempotent: promote(T, T) returns T without raising,
\* for every type T.
C22_PromoteIdempotent ==
    (Promoted /\ type1 = type2) =>
        (prom_status = "returned" /\ prom_value = type1)

\* The width of a numeric type, a complex type counting as half its size.
EffectiveWidth(type) ==
    IF type.kind = "complex" THEN type.itemsize \div 2 ELSE type.itemsize

\* C23: for two numeric types of different kinds promote_numeric returns
\* the type of the higher-ranked kind (bool < int < float < complex) whose
\* width is the larger of the two effective widths; for two types of the
\* same kind it returns the higher-ranked operand.
C23_PromoteNumeric ==
    (Promoted /\ is_numeric(type1) /\ is_numeric(type2)) =>
        /\ prom_status = "returned"
        /\ IF type1.kind # type2.kind
           THEN /\ prom_value \in NumericTypes
                /\ KindRank(prom_value.kind) =
                       Max(KindRank(type1.kind), KindRank(type2.kind))
                /\ EffectiveWidth(prom_value) =
                       Max(EffectiveWidth(type1), EffectiveWidth(type2))
           ELSE /\ prom_value \in {type1, type2}
                /\ prom_value.rank >= type1.rank
                /\ prom_value.rank >= type2.rank

\* C23 witness: a complex type and a wider type of another kind were
\* promoted to the complex type of twice that width.
C23_Witness ==
    /\ prom_status = "returned"
    /\ type1 = complex64
    /\ type2 = int64
    /\ prom_value = complextypes[2]

\* ============================================================ TypeInferer
\* The local variables of the function.
LocalNames == {"s", "x"}

\* The types of the Python constants (context.typemapper.from_python) and
\* of the target of a loop over range() (_types.Py_ssize_t).
ConstTypes == {int64, float64}
Py_ssize_t == int64

\* The expressions: a constant, a variable, a variable plus a constant.
Num(type) == [node |-> "Num", id |-> "", n |-> type]
Name(id) == [node |-> "Name", id |-> id, n |-> NoType]
BinOp(id, type) == [node |-> "BinOp", id |-> id, n |-> type]
Exprs ==
    {Num(t) : t \in ConstTypes} \cup {Name(v) : v \in LocalNames}
        \cup {BinOp(v, t) : v \in LocalNames, t \in ConstTypes}

\* context.promote_types(t1, t2): the promotion of the two types; what it
\* does with None in the place of a type is left open (none_promotes).
promote_types(t1, t2) ==
    IF t1 = NoType
    THEN IF none_promotes THEN Returned_(t2) ELSE Raised_("AttributeError")
    ELSE promote(char_pointer, t1, t2)

\* TypeInferer.visit_Name, lines 152-159, for a load of a local variable.
TypeInferer_visit_Name(st, id) ==
    IF st[id] = NoType THEN Raised_("UnboundLocalError") ELSE Returned_(st[id])

\* TypeInferer.visit_BinOp, lines 171-180: the type of the node's variable.
TypeInferer_visit_BinOp(st, id, right) ==
    LET left == TypeInferer_visit_Name(st, id)
    IN  IF left.status # "returned" THEN left
        ELSE promote_types(left.value, right)

\* self.visit(expression): the type of the node's variable.
visit_expression(st, e) ==
    IF e.node = "Num" THEN Returned_(e.n)
    ELSE IF e.node = "Name" THEN TypeInferer_visit_Name(st, e.id)
    ELSE TypeInferer_visit_BinOp(st, e.id, e.n)

\* TypeInferer.assign, lines 111-118: the type of lhs_var afterwards and the
\* node returned (rhs_node itself, or a CoercionNode to dst_type).
TypeInferer_assign(lhs_type, rhs_type) ==
    IF lhs_type = NoType
    THEN [status |-> "returned", lhs_type |-> rhs_type, node |-> "rhs_node",
          dst_type |-> NoType]
    ELSE IF lhs_type # rhs_type
    THEN LET p == promote_types(lhs_type, rhs_type)
         IN  IF p.status # "returned"
             THEN [status |-> p.status, lhs_type |-> lhs_type,
                   node |-> "rhs_node", dst_type |-> NoType]
             ELSE [status |-> "returned", lhs_type |-> lhs_type,
                   node |-> "CoercionNode", dst_type |-> lhs_type]
    ELSE [status |-> "returned", lhs_type |-> lhs_type, node |-> "rhs_node",
          dst_type |-> NoType]

\* The record of a visited statement.
Visited(stmt, target, value, value_type, before, node, dst_type) ==
    [stmt |-> stmt, target |-> target, value |-> value,
     value_type |-> value_type, before |-> before, node |-> node,
     dst_type |-> dst_type]

\* TypeInferer.__init__ and init_locals: no local has a type yet.
InfStart ==
    /\ symtab = [v \in LocalNames |-> NoType]
    /\ return_variable = NoType
    /\ inf_return_type = NoType
    /\ visited = << >>
    /\ inf_status = "visiting"

InfInit == none_promotes \in BOOLEAN /\ InfStart

\* The component as the other components leave it.
InfIdleInit == none_promotes = FALSE /\ InfStart

InfIdle == UNCHANGED infVars

\* TypeInferer.visit_Assign, lines 102-109, for `target = value`.
TypeInferer_visit_Assign(target, value) ==
    /\ inf_status = "visiting"
    /\ Len(visited) < MaxStmts
    /\ LET v == visit_expression(symtab, value)
           a == TypeInferer_assign(symtab[target], v.value)
       IN  IF v.status # "returned"
           THEN /\ inf_status' = v.status
                /\ UNCHANGED << symtab, visited >>
           ELSE /\ inf_status' = IF a.status = "returned" THEN "visiting"
                                                         ELSE a.status
                /\ symtab' = [symtab EXCEPT ![target] = a.lhs_type]
                /\ visited' = Append(visited,
                       Visited("Assign", target, value, v.value,
                               symtab[target], a.node, a.dst_type))
    /\ UNCHANGED << none_promotes, return_variable, inf_return_type >>

\* TypeInferer.visit_For, lines 133-143, for `for target in range(n):`; the
\* statements of the body are visited next, once.
TypeInferer_visit_For(target) ==
    /\ inf_status = "visiting"
    /\ Len(visited) < MaxStmts
    /\ LET a == TypeInferer_assign(symtab[target], Py_ssize_t)
       IN  /\ inf_status' = IF a.status = "returned" THEN "visiting"
                                                     ELSE a.status
           /\ symtab' = [symtab EXCEPT ![target] = a.lhs_type]
           /\ visited' = Append(visited,
                  Visited("For", target, Num(Py_ssize_t), Py_ssize_t,
                          symtab[target], a.node, a.dst_type))
    /\ UNCHANGED << none_promotes, return_variable, inf_return_type >>

\* TypeInferer.visit_Return, lines 270-282, for `return value`.
TypeInferer_visit_Return(value) ==
    /\ inf_status = "visiting"
    /\ Len(visited) < MaxStmts
    /\ LET v == visit_expression(symtab, value)
           p == promote_types(inf_return_type, v.value)
       IN  IF v.status # "returned"
           THEN /\ inf_status' = v.status
                /\ UNCHANGED << return_variable, visited >>
           ELSE IF return_variable = NoType
           THEN /\ return_variable' = v.value
                /\ visited' = Append(visited,
                       Visited("Return", "", value, v.value, NoType,
                               "value", NoType))
                /\ UNCHANGED inf_status
           ELSE IF p.status # "returned"
           THEN /\ inf_status' = p.status
                /\ UNCHANGED << return_variable, visited >>
           ELSE /\ return_variable' = p.value
                /\ visited' = Append(visited,
                       Visited("Return", "", value, v.value, return_variable,
                               "DeferredCoercionNode", NoType))
                /\ UNCHANGED inf_status
    /\ UNCHANGED << none_promotes, symtab, inf_return_type >>

\* TypeInferer.infer_types, lines 48-55, with no return type given in the
\* signature: the visit of the function body is over.
infer_types_finish ==
    /\ inf_status = "visiting"
    /\ inf_return_type' = return_variable
    /\ inf_status' = "done"
    /\ UNCHANGED << none_promotes, symtab, return_variable, visited >>

InfSteps ==
    \/ \E target \in LocalNames : \E value \in Exprs :
           TypeInferer_visit_Assign(target, value)
    \/ \E target \in LocalNames : TypeInferer_visit_For(target)
    \/ \E value \in Exprs : TypeInferer_visit_Return(value)
    \/ infer_types_finish

\* ------------------------------------------------ TypeInferer: properties
\* The join of a variable's type with the type of a value assigned to it.
JoinType(t1, t2) ==
    IF t1 = NoType THEN t2 ELSE promote(char_pointer, t1, t2).value

\* The statements visited so far are exactly `s = 0`, `for x in range(n):`,
\* `s = s + 0.5`.
ScenarioC ==
    /\ Len(visited) = 3
    /\ visited[1].stmt = "Assign" /\ visited[1].target = "s"
    /\ visited[1].value = Num(int64)
    /\ visited[2].stmt = "For" /\ visited[2].target = "x"
    /\ visited[3].stmt = "Assign" /\ visited[3].target = "s"
    /\ visited[3].value = BinOp("s", float64)

\* C24: a variable first assigned an integer and then a float-typed
\* expression inside a loop gets the type float64: each assignment widens
\* the variable's type to the join of its type and the type of the value,
\* and never keeps the first-assigned integer type.
C24_AssignWidens ==
    /\ ScenarioC => symtab["s"] = float64
    /\ \A i \in DOMAIN visited :
           (visited[i].stmt = "Assign" /\ i = Len(visited)) =>
               symtab[visited[i].target] =
                   JoinType(visited[i].before, visited[i].value_type)

\* The return statements visited, and the join of the types they return.
ReturnIndexes == {i \in DOMAIN visited : visited[i].stmt = "Return"}

RECURSIVE JoinOfReturns(_)
JoinOfReturns(upto) ==
    IF upto = 0 THEN NoType
    ELSE IF upto \in ReturnIndexes
    THEN JoinType(JoinOfReturns(upto - 1), visited[upto].value_type)
    ELSE JoinOfReturns(upto - 1)

\* C25: for a function with several return statements, type inference ends
\* with the join of the types of all returned values as the return type,
\* whatever the order of the return statements, and every return statement
\* whose value has another type is wrapped in a coercion to it.
C25_ReturnTypeIsJoin ==
    /\ inf_status # "AttributeError"
    /\ (inf_status = "done" /\ ReturnIndexes # {}) =>
           /\ inf_return_type = JoinOfReturns(Len(visited))
           /\ \A i \in ReturnIndexes :
                  visited[i].value_type # inf_return_type =>
                      visited[i].node = "DeferredCoercionNode"

\* C28: no sequence of Assigner.assign calls within one block raises: each
\* destination name removed during invalidation is still in dest_to_src
\* when it is removed.
C28_AssignNeverRaises == asg_raised = "none"

\* ------------------------------------------------ bytecode translator blocks

\* ir.Raise, built by op_RAISE_VARARGS: a terminator like Return.
RaiseStmts == {"Raise"}

\* The statement classes of ir.py with is_terminator = True.
TerminatorStmts == {"Return", "Jump", "Branch"} \cup RaiseStmts

StmtKinds == {"Assign", "AssignTemp", "AssignPhi", "SetItem"} \cup TerminatorStmts

\* Stmt.is_terminator
is_terminator(inst) == inst \in TerminatorStmts

\* Block.is_terminated
is_terminated(body) == body # << >> /\ is_terminator(body[Len(body)])

\* Block.verify: the message of the VerificationError raised, or "none".
Block_verify(body) ==
    IF ~ is_terminated(body)
    THEN "Missing block terminator"
    ELSE IF \E i \in 1 .. Len(body) - 1 : is_terminator(body[i])
         THEN "Terminator before the last instruction"
         ELSE "none"

\* Block.insert_before_terminator: the statement goes right before the
\* last statement of a terminated block.
insert_before_terminator(body, stmt) ==
    SubSeq(body, 1, Len(body) - 1) \o << stmt >> \o << body[Len(body)] >>

\* _start_new_block without the fall-through jump.
WithFallThrough_never(body) == body

\* _start_new_block: "Ensure the last block is terminated".
WithFallThrough(body) ==
    IF ~ is_terminated(body) THEN Append(body, "Jump") ELSE body

RECURSIVE KeepFrom(_, _, _)
KeepFrom(body, drop, i) ==
    IF i > Len(body) THEN << >>
    ELSE (IF i \in drop THEN << >> ELSE << body[i] >>)
         \o KeepFrom(body, drop, i + 1)

\* The positions _remove_unused_temporaries may drop: assignments to a
\* temporary; which of them are unused is the Assigner's answer.
TempAssigns(body) == {i \in DOMAIN body : body[i] = "AssignTemp"}

\* _remove_unused_temporaries
_remove_unused_temporaries(body, unused) == KeepFrom(body, unused, 1)

\* _insert_outgoing_phis, for n outgoing phis.
RECURSIVE _insert_outgoing_phis(_, _)
_insert_outgoing_phis(body, n) ==
    IF n = 0 THEN body
    ELSE _insert_outgoing_phis(
             IF ~ is_terminated(body)
             THEN Append(body, "AssignPhi")
             ELSE insert_before_terminator(body, "AssignPhi"),
             n - 1)

NoVerify == [body |-> << >>, raised |-> "not called"]

IrInit ==
    /\ ir_blocks = << >>
    /\ current_block = 0
    /\ interp_stage = "between"
    /\ _force_new_block = TRUE
    /\ inst_count = 0
    /\ verified = NoVerify

IrIdleInit == IrInit

IrIdle == UNCHANGED irVars

Repeat(stmt, n) == [i \in 1 .. n |-> stmt]

\* _iter_inst: the next live block starts; the first one receives the
\* stores of init_first_block.
_iter_inst_block(arg_count) ==
    /\ interp_stage = "between"
    /\ Len(ir_blocks) < MaxIrBlocks
    /\ LET closed == IF current_block = 0 THEN ir_blocks
                     ELSE [ir_blocks EXCEPT ![current_block] = WithFallThrough(@)]
           first  == IF current_block = 0 THEN Repeat("Assign", arg_count)
                     ELSE << >>
       IN  /\ ir_blocks' = Append(closed, first)
           /\ current_block' = Len(ir_blocks) + 1
    /\ interp_stage' = "open"
    /\ inst_count' = 0
    /\ UNCHANGED << _force_new_block, verified >>

\* An instruction belongs to the current block unless the control-flow
\* analysis forced a new block after the previous instruction
\* (ControlFlowAnalysis._use_new_block).
InBlock ==
    /\ interp_stage = "open"
    /\ inst_count < MaxInsts
    /\ inst_count > 0 => ~ _force_new_block

Dispatch(stmts, force) ==
    /\ ir_blocks' = [ir_blocks EXCEPT ![current_block] = @ \o stmts]
    /\ inst_count' = inst_count + 1
    /\ _force_new_block' = force
    /\ UNCHANGED << current_block, interp_stage, verified >>

\* An instruction whose handler stores a value (store appends an Assign).
op_store(temp) ==
    /\ InBlock
    /\ Dispatch(<< IF temp THEN "AssignTemp" ELSE "Assign" >>, FALSE)

op_STORE_SUBSCR ==
    /\ InBlock
    /\ Dispatch(<< "SetItem" >>, FALSE)

op_FOR_ITER ==
    /\ InBlock
    /\ inst_count = 0
    /\ Dispatch(<< "AssignTemp", "AssignTemp", "AssignTemp", "Branch" >>, TRUE)

op_JUMP_ABSOLUTE ==
    /\ InBlock
    /\ Dispatch(<< "Jump" >>, TRUE)

op_JUMP_FORWARD ==
    /\ InBlock
    /\ Dispatch(<< "Jump" >>, TRUE)

op_RETURN_VALUE ==
    /\ InBlock
    /\ Dispatch(<< "AssignTemp", "Return" >>, TRUE)

op_BREAK_LOOP ==
    /\ InBlock
    /\ Dispatch(<< "Jump" >>, TRUE)

_op_JUMP_IF ==
    /\ InBlock
    /\ Dispatch(<< "Branch" >>, TRUE)

op_RAISE_VARARGS ==
    /\ InBlock
    /\ Dispatch(<< "Raise" >>, TRUE)

\* _end_current_block, after the last instruction of the block.
_end_current_block(unused, outgoing_phis) ==
    /\ interp_stage = "open"
    /\ inst_count > 0
    /\ ir_blocks' = [ir_blocks EXCEPT ![current_block] =
                        _insert_outgoing_phis(
                            _remove_unused_temporaries(@, unused),
                            outgoing_phis)]
    /\ interp_stage' = "between"
    /\ UNCHANGED << current_block, _force_new_block, inst_count, verified >>

\* The interpret loop ends after the last live block.  The last live block
\* never falls through: the analysis links a block without jump and
\* without return or raise to its successor, which is then live too.
interpret_finish ==
    /\ interp_stage = "between"
    /\ current_block # 0
    /\ _force_new_block
    /\ interp_stage' = "done"
    /\ UNCHANGED << ir_blocks, current_block, _force_new_block, inst_count,
                    verified >>

\* The body of current_block, empty while current_block is None.
CurrentBody ==
    IF current_block = 0 THEN << >> ELSE ir_blocks[current_block]

Bodies == UNION {[1 .. n -> StmtKinds] : n \in 0 .. MaxBody}

\* Block.verify, on a block of the translated function or on any block.
verify_block(body) ==
    /\ interp_stage = "done"
    /\ verified' = [body |-> body, raised |-> Block_verify(body)]
    /\ interp_stage' = "verified"
    /\ UNCHANGED << ir_blocks, current_block, _force_new_block, inst_count >>

IrSteps ==
    \/ \E arg_count \in 0 .. MaxArgCount : _iter_inst_block(arg_count)
    \/ \E temp \in BOOLEAN : op_store(temp)
    \/ op_STORE_SUBSCR
    \/ op_FOR_ITER
    \/ op_JUMP_ABSOLUTE
    \/ op_JUMP_FORWARD
    \/ op_RETURN_VALUE
    \/ op_BREAK_LOOP
    \/ _op_JUMP_IF
    \/ op_RAISE_VARARGS
    \/ \E unused \in SUBSET TempAssigns(CurrentBody),
          outgoing_phis \in 0 .. MaxPhis :
            _end_current_block(unused, outgoing_phis)
    \/ interpret_finish
    \/ \E b \in DOMAIN ir_blocks : verify_block(ir_blocks[b])
    \/ \E body \in Bodies : verify_block(body)

\* ----------------------------------------------------------------------
\* Properties of the translator's blocks.

NoStmtAfterTerminator(body) ==
    \A i \in 1 .. Len(body) - 1 : ~ is_terminator(body[i])

OneTerminatorLast(body) ==
    /\ body # << >>
    /\ is_terminator(body[Len(body)])
    /\ NoStmtAfterTerminator(body)

\* C26: no statement ever follows a terminator in a block; every block
\* that was left for the next one, and every block once translation is
\* over, has exactly one terminator, as its last statement; and
\* Block.verify raises exactly for the bodies that do not.
C26_OneTerminatorLast ==
    /\ \A b \in DOMAIN ir_blocks : NoStmtAfterTerminator(ir_blocks[b])
    /\ \A b \in DOMAIN ir_blocks :
          (b # current_block \/ interp_stage \in {"done", "verified"})
              => OneTerminatorLast(ir_blocks[b])
    /\ verified # NoVerify
          => (verified.raised # "none" <=> ~ OneTerminatorLast(verified.body))

\* A block with an outgoing phi was left without terminator and got the
\* fall-through jump after the phi, and the next block is being filled.
C26_Witness ==
    /\ current_block > 1
    /\ interp_stage = "open"
    /\ inst_count = 0
    /\ ~ _force_new_block
    /\ LET body == ir_blocks[current_block - 1]
       IN  /\ Len(body) >= 2
           /\ body[Len(body)] = "Jump"
           /\ body[Len(body) - 1] = "AssignPhi"

\* ------------------------------------------------ loop lifting

\* bytecode.co_varnames: the local names of the function.
co_varnames == {"a", "b"}

\* Bytecode instructions: LOAD_FAST and STORE_FAST of a local, and one
\* instruction standing for every other opcode.
OtherInst == [opname |-> "POP_TOP", arg |-> "-"]

LoadFast(name) == [opname |-> "LOAD_FAST", arg |-> name]

ByteCodeInsts ==
    [opname : {"LOAD_FAST", "STORE_FAST"}, arg : co_varnames] \cup {OtherInst}

InstSeqs(lo, hi) == UNION {[1 .. n -> ByteCodeInsts] : n \in lo .. hi}

\* find_varnames_uses: the pair (rdnames, wrnames).
find_varnames_uses(insts) ==
    << {insts[i].arg : i \in {j \in DOMAIN insts : insts[j].opname = "LOAD_FAST"}},
       {insts[i].arg : i \in {j \in DOMAIN insts : insts[j].opname = "STORE_FAST"}} >>

\* discover_args_and_returns: the pair (args, rets).
discover_args_and_returns(insts, rds, wrs) ==
    LET uses    == find_varnames_uses(insts)
        rdnames == uses[1]
        wrnames == uses[2]
    IN  << wrs \cap rdnames, wrnames \cap rds >>

\* insts[:i] + items + insts[i:]
InsertAt(insts, i, items) ==
    SubSeq(insts, 1, i) \o items \o SubSeq(insts, i + 1, Len(insts))

\* stitch_instructions, the loop going to position i of the outer code.
stitch_instructions(insts, loop, i) == InsertAt(insts, i, loop)

\* The names of a set in the order of co_varnames.
RECURSIVE LoadArgs(_)
LoadArgs(names) ==
    IF names = {} THEN << >>
    ELSE LET n == CHOOSE x \in names : \A y \in names : x = y \/ ~ (y = "a")
         IN  << LoadFast(n) >> \o LoadArgs(names \ {n})

\* insert_loop_call: jump, load of the loop function, one LOAD_FAST per
\* argument, call, pop and jump back, at position i of the outer code.
insert_loop_call(insts, args, i) ==
    InsertAt(insts, i,
             << OtherInst, OtherInst >> \o LoadArgs(args)
                 \o << OtherInst, OtherInst, OtherInst >>)

NoLoop == [loop |-> << >>, args |-> {}, rets |-> {}]

\* lift_loop, lines 40-50, for the loop-less instructions and the
\* arguments of the function.
LiftStart(insts, argspec_args) ==
    /\ outer = insts
    /\ outer_rds = find_varnames_uses(insts)[1]
    /\ outer_wrs = find_varnames_uses(insts)[2] \cup argspec_args
    /\ lbclist = << >>
    /\ loops_handled = 0
    /\ last_loop = NoLoop

LiftInit ==
    \E insts \in InstSeqs(0, MaxOuterInsts), argspec_args \in SUBSET co_varnames :
        LiftStart(insts, argspec_args)

LiftIdleInit == LiftStart(<< >>, {})

LiftIdle == UNCHANGED liftVars

\* lift_loop, line 59: "wrs, rds = find_varnames_uses(bytecode, loop)",
\* where find_varnames_uses returns (rdnames, wrnames).
Recomputed(loop) ==
    LET uses == find_varnames_uses(loop)
    IN  [wrs |-> uses[1], rds |-> uses[2]]

\* lift_loop, one iteration of "for loop in loops" (lines 51-64); the
\* position of the loop in the outer code is i.
lift_loop_step(loop, i) ==
    /\ loops_handled < MaxLoops
    /\ i \in 0 .. Len(outer)
    /\ LET ar   == discover_args_and_returns(loop, outer_rds, outer_wrs)
           args == ar[1]
           rets == ar[2]
       IN  /\ last_loop' = [loop |-> loop, args |-> args, rets |-> rets]
           /\ IF rets # {}
              THEN /\ outer' = stitch_instructions(outer, loop, i)
                   /\ outer_wrs' = outer_wrs \cup Recomputed(loop).wrs
                   /\ outer_rds' = outer_rds \cup Recomputed(loop).rds
                   /\ UNCHANGED lbclist
              ELSE /\ outer' = insert_loop_call(outer, args, i)
                   /\ lbclist' = Append(lbclist, args)
                   /\ UNCHANGED << outer_rds, outer_wrs >>
    /\ loops_handled' = loops_handled + 1

LiftSteps ==
    \E loop \in InstSeqs(1, MaxLoopInsts), i \in 0 .. MaxOuterInsts + 8 * MaxLoops :
        lift_loop_step(loop, i)

\* ----------------------------------------------------------------------
\* Properties of loop lifting.

\* C27: when a loop is rejected and stitched back, the outer read set
\* gains exactly the names the loop reads and the outer write set gains
\* exactly the names the loop writes.
C27_StitchedLoopUpdatesSets ==
    [][(loops_handled' = loops_handled + 1 /\ last_loop'.rets # {})
          => /\ outer_rds' = outer_rds \cup find_varnames_uses(last_loop'.loop)[1]
             /\ outer_wrs' = outer_wrs \cup find_varnames_uses(last_loop'.loop)[2]
      ]_vars

\* ------------------------------------------------ native integer code

MinInt == -(2 ^ (IntBits - 1))
MaxInt == 2 ^ (IntBits - 1) - 1
SignedInts == MinInt .. MaxInt

\* Two's complement value of an integer at the native width.
Wrap(x) == ((x - MinInt) % (2 ^ IntBits)) + MinInt

\* builder.add, builder.sub, builder.mul
add(a, b) == Wrap(a + b)
sub(a, b) == Wrap(a - b)
mul(a, b) == Wrap(a * b)

Magnitude(a) == IF a < 0 THEN -a ELSE a

\* builder.sdiv is undefined for a zero divisor and for MinInt / -1.
sdiv_defined(a, b) == b # 0 /\ ~ (a = MinInt /\ b = -1)

\* builder.sdiv where defined: the quotient rounded toward zero.
sdiv(a, b) ==
    LET q == Magnitude(a) \div Magnitude(b)
    IN  IF (a < 0) # (b < 0) THEN -q ELSE q

\* cgutils.is_neg_int
is_neg_int(val) == val < 0

\* builder.select
select(cond, a, b) == IF cond THEN a ELSE b

\* Mutant of DivmodQuot: the quotient of the signed division for every val.
DivmodQuot_sdiv(val, divisor) == sdiv(val, divisor)

\* divmod_by_constant, lines 748-756: the value stored to quot.
DivmodQuot(val, divisor) ==
    IF is_neg_int(val)
    THEN sub(sdiv(add(val, 1), divisor), 1)
    ELSE sdiv(val, divisor)

\* divmod_by_constant: the pair (quot_val, rem_val).
divmod_by_constant(val, divisor) ==
    LET quot_val == DivmodQuot(val, divisor)
        rem_val  == sub(val, mul(quot_val, divisor))
    IN  << quot_val, rem_val >>

\* The divisors the assertion accepts that are constants of val's type.
Divisors == 1 .. MaxInt

DmStart(val, divisor) ==
    /\ dm_val = val
    /\ dm_divisor = divisor
    /\ dm_pc = "call"
    /\ dm_result = << 0, 0 >>

DmInit == \E val \in SignedInts, divisor \in Divisors : DmStart(val, divisor)

DmIdleInit == DmStart(0, 1)

DmIdle == UNCHANGED dmVars

divmod_call ==
    /\ dm_pc = "call"
    /\ dm_result' = divmod_by_constant(dm_val, dm_divisor)
    /\ dm_pc' = "returned"
    /\ UNCHANGED << dm_val, dm_divisor >>

DmSteps == divmod_call

\* ----------------------------------------------------------------------
\* Properties of divmod_by_constant.

\* Python's val // d for d > 0: the largest q with q * d <= val.
FloorDiv(val, d) ==
    CHOOSE q \in MinInt - 1 .. MaxInt : q * d <= val /\ val < (q + 1) * d

\* C29: for every signed val and every constant divisor d > 0 the pair
\* returned is (q, r) with q = floor(val / d), r = val - q * d and
\* 0 <= r < d, also for negative val.
C29_DivmodIsFloorDivision ==
    dm_pc = "returned" =>
        LET q == dm_result[1]
            r == dm_result[2]
        IN  /\ q = FloorDiv(dm_val, dm_divisor)
            /\ r = dm_val - q * dm_divisor
            /\ 0 <= r /\ r < dm_divisor

\* A negative val that is not a multiple of the divisor: the signed
\* division alone would round the quotient up.
C29_Witness ==
    /\ dm_pc = "returned"
    /\ dm_val < 0
    /\ dm_result[2] > 0
    /\ dm_result[1] < sdiv(dm_val, dm_divisor)

\* ------------------------------------------------ slice length

\* get_slice_length, lines 89-93: the dividend and the divisor handed to
\* builder.sdiv.
SliceDividend(start, stop, step) ==
    LET delta        == sub(stop, start)
        pos_dividend == sub(delta, 1)
        neg_dividend == add(delta, 1)
    IN  select(is_neg_int(step), neg_dividend, pos_dividend)

\* get_slice_length where its division is defined.
get_slice_length(start, stop, step) ==
    LET is_step_negative == is_neg_int(step)
        delta            == sub(stop, start)
        dividend         == SliceDividend(start, stop, step)
        nominal_length   == add(1, sdiv(dividend, step))
        is_zero_length   == select(is_step_negative, delta >= 0, delta <= 0)
    IN  select(is_zero_length, 0, nominal_length)

SlStart(start, stop, step) ==
    /\ sl_start = start
    /\ sl_stop = stop
    /\ sl_step = step
    /\ sl_pc = "call"
    /\ sl_length = 0

SlInit ==
    \E start \in SignedInts, stop \in SignedInts, step \in SignedInts \ {0} :
        SlStart(start, stop, step)

SlIdleInit == SlStart(0, 0, 1)

SlIdle == UNCHANGED slVars

\* The generated code runs; the division is executed whether or not its
\* result is selected.
get_slice_length_call ==
    /\ sl_pc = "call"
    /\ sdiv_defined(SliceDividend(sl_start, sl_stop, sl_step), sl_step)
    /\ sl_length' = get_slice_length(sl_start, sl_stop, sl_step)
    /\ sl_pc' = "returned"
    /\ UNCHANGED << sl_start, sl_stop, sl_step >>

\* The division overflows (MinInt / -1): the behaviour is undefined, the
\* code returns any value or traps.
get_slice_length_undefined ==
    /\ sl_pc = "call"
    /\ ~ sdiv_defined(SliceDividend(sl_start, sl_stop, sl_step), sl_step)
    /\ \/ sl_pc' = "returned" /\ sl_length' \in SignedInts
       \/ sl_pc' = "trapped" /\ sl_length' = 0
    /\ UNCHANGED << sl_start, sl_stop, sl_step >>

SlSteps ==
    \/ get_slice_length_call
    \/ get_slice_length_undefined

\* ----------------------------------------------------------------------
\* Properties of get_slice_length.

\* Python's a // b for b # 0.
PyFloorDiv(a, b) ==
    CHOOSE q \in -(2 ^ (IntBits + 1)) .. 2 ^ (IntBits + 1) :
        IF b > 0 THEN q * b <= a /\ a < (q + 1) * b
                 ELSE q * b >= a /\ a > (q + 1) * b

\* The pseudo-code of the docstring, on Python integers.
SliceLengthPseudoCode(start, stop, step) ==
    IF step > 0
    THEN IF stop <= start THEN 0
         ELSE PyFloorDiv(stop - start - 1, step) + 1
    ELSE IF stop >= start THEN 0
         ELSE PyFloorDiv(stop - start + 1, step) + 1

\* The number of indices start, start + step, ... strictly before stop in
\* the direction of step.
IndexCount(start, stop, step) ==
    Cardinality({k \in 0 .. 2 ^ IntBits :
                    IF step > 0 THEN start + k * step < stop
                                ELSE start + k * step > stop})

\* C30: for every slice with step # 0, get_slice_length returns the value
\* of its pseudo-code evaluated with Python floor division, which is the
\* number of indices of the slice.
C30_SliceLengthIsPseudoCode ==
    sl_pc # "call" =>
        /\ sl_pc = "returned"
        /\ sl_length = SliceLengthPseudoCode(sl_start, sl_stop, sl_step)
        /\ sl_length = IndexCount(sl_start, sl_stop, sl_step)

\* ===================================================== specifications
\* The control-flow graph analyser alone.
CFGNext == CFGSteps /\ AsgIdle /\ StoreIdle /\ LowerIdle /\ AccIdle /\ OvlIdle /\ PromIdle /\ InfIdle /\ IrIdle /\ LiftIdle /\ DmIdle /\ SlIdle
Init == CFGInit /\ AsgInit /\ StoreIdleInit /\ LowerInit /\ AccInit /\ OvlIdleInit /\ PromIdleInit /\ InfIdleInit /\ IrIdleInit /\ LiftIdleInit /\ DmIdleInit /\ SlIdleInit
Next == CFGNext
Spec == Init /\ [][Next]_vars

\* The same, with process() running to its end once called: the worklist
\* loops and the steps between them are never suspended for ever.
\* Every step of process() changes its position, the worklist or the table.
progressVars == << pc, todo, doms >>
SpecLive ==
    /\ Init
    /\ [][Next]_vars
    /\ WF_progressVars(find_dominators_step)
    /\ WF_progressVars(find_loops)
    /\ WF_progressVars(find_post_dominators)

\* One Assigner, as used inside one block.
AsgNext == AsgSteps /\ CFGIdle /\ StoreIdle /\ LowerIdle /\ AccIdle /\ OvlIdle /\ PromIdle /\ InfIdle /\ IrIdle /\ LiftIdle /\ DmIdle /\ SlIdle
SpecAssigner == Init /\ [][AsgNext]_vars

\* The variable definition policy of the translator: the control-flow
\* analysis of one function, then the stores of its blocks.
StoreNext == StoreSteps /\ CFGIdle /\ AsgIdle /\ LowerIdle /\ AccIdle /\ OvlIdle /\ PromIdle /\ InfIdle /\ IrIdle /\ LiftIdle /\ DmIdle /\ SlIdle
InitStore == CFGInit /\ AsgInit /\ StoreInit /\ LowerInit /\ AccInit /\ OvlIdleInit /\ PromIdleInit /\ InfIdleInit /\ IrIdleInit /\ LiftIdleInit /\ DmIdleInit /\ SlIdleInit
SpecStore == InitStore /\ [][StoreNext]_vars

\* The code generator: the translation of one function, then one run of the
\* function it emitted.
LowerNext == LowerSteps /\ CFGIdle /\ AsgIdle /\ StoreIdle /\ AccIdle /\ OvlIdle /\ PromIdle /\ InfIdle /\ IrIdle /\ LiftIdle /\ DmIdle /\ SlIdle
SpecLower == Init /\ [][LowerNext]_vars

\* A graph under construction and one call of successors or predecessors.
AccNext == AccSteps /\ AsgIdle /\ StoreIdle /\ LowerIdle /\ OvlIdle /\ PromIdle /\ InfIdle /\ IrIdle /\ LiftIdle /\ DmIdle /\ SlIdle
SpecAccess == Init /\ [][AccNext]_vars

\* One template: its cases are registered, then one call is resolved.
OvlNext == OvlSteps /\ CFGIdle /\ AsgIdle /\ StoreIdle /\ LowerIdle /\ AccIdle /\ PromIdle /\ InfIdle /\ IrIdle /\ LiftIdle /\ DmIdle /\ SlIdle
InitOverload ==
    CFGInit /\ AsgInit /\ StoreIdleInit /\ LowerInit /\ AccInit /\ OvlInit
        /\ PromIdleInit /\ InfIdleInit /\ IrIdleInit /\ LiftIdleInit /\ DmIdleInit /\ SlIdleInit
SpecOverload == InitOverload /\ [][OvlNext]_vars

\* One call of the default promoter on any two types.
PromNext ==
    PromSteps /\ CFGIdle /\ AsgIdle /\ StoreIdle /\ LowerIdle /\ AccIdle
        /\ OvlIdle /\ InfIdle /\ IrIdle /\ LiftIdle /\ DmIdle /\ SlIdle
InitPromote ==
    CFGInit /\ AsgInit /\ StoreIdleInit /\ LowerInit /\ AccInit /\ OvlIdleInit
        /\ PromInit /\ InfIdleInit /\ IrIdleInit /\ LiftIdleInit /\ DmIdleInit /\ SlIdleInit
SpecPromote == InitPromote /\ [][PromNext]_vars

\* One type inferer visiting the statements of one function.
InfNext ==
    InfSteps /\ CFGIdle /\ AsgIdle /\ StoreIdle /\ LowerIdle /\ AccIdle
        /\ OvlIdle /\ PromIdle /\ IrIdle /\ LiftIdle /\ DmIdle /\ SlIdle
InitInfer ==
    CFGInit /\ AsgInit /\ StoreIdleInit /\ LowerInit /\ AccInit /\ OvlIdleInit
        /\ PromIdleInit /\ InfInit /\ IrIdleInit /\ LiftIdleInit /\ DmIdleInit /\ SlIdleInit
SpecInfer == InitInfer /\ [][InfNext]_vars

IrNext == IrSteps /\ CFGIdle /\ AsgIdle /\ StoreIdle /\ LowerIdle /\ AccIdle /\ OvlIdle /\ PromIdle /\ InfIdle /\ LiftIdle /\ DmIdle /\ SlIdle

InitBlocks == CFGInit /\ AsgInit /\ StoreIdleInit /\ LowerInit /\ AccInit /\ OvlIdleInit /\ PromIdleInit /\ InfIdleInit /\ IrInit /\ LiftIdleInit /\ DmIdleInit /\ SlIdleInit

SpecBlocks == InitBlocks /\ [][IrNext]_vars

\* One function whose top-level loops are lifted one after the other.
LiftNext == LiftSteps /\ CFGIdle /\ AsgIdle /\ StoreIdle /\ LowerIdle /\ AccIdle /\ OvlIdle /\ PromIdle /\ InfIdle /\ IrIdle /\ DmIdle /\ SlIdle

InitLift == CFGInit /\ AsgInit /\ StoreIdleInit /\ LowerInit /\ AccInit /\ OvlIdleInit /\ PromIdleInit /\ InfIdleInit /\ IrIdleInit /\ LiftInit /\ DmIdleInit /\ SlIdleInit

SpecLift == InitLift /\ [][LiftNext]_vars

\* One call of divmod_by_constant on any value and divisor.
DmNext == DmSteps /\ CFGIdle /\ AsgIdle /\ StoreIdle /\ LowerIdle /\ AccIdle /\ OvlIdle /\ PromIdle /\ InfIdle /\ IrIdle /\ LiftIdle /\ SlIdle

InitDivmod == CFGInit /\ AsgInit /\ StoreIdleInit /\ LowerInit /\ AccInit /\ OvlIdleInit /\ PromIdleInit /\ InfIdleInit /\ IrIdleInit /\ LiftIdleInit /\ DmInit /\ SlIdleInit

SpecDivmod == InitDivmod /\ [][DmNext]_vars

\* One call of get_slice_length on any slice with a non-zero step.
SlNext == SlSteps /\ CFGIdle /\ AsgIdle /\ StoreIdle /\ LowerIdle /\ AccIdle /\ OvlIdle /\ PromIdle /\ InfIdle /\ IrIdle /\ LiftIdle /\ DmIdle

InitSlice == CFGInit /\ AsgInit /\ StoreIdleInit /\ LowerInit /\ AccInit /\ OvlIdleInit /\ PromIdleInit /\ InfIdleInit /\ IrIdleInit /\ LiftIdleInit /\ DmIdleInit /\ SlInit

SpecSlice == InitSlice /\ [][SlNext]_vars

====
